---- MODULE Spec2Model ----
(***************************************************************************)
(* LTI tool-consumer protocol engine of ModuLearn: the launch endpoint,    *)
(* the outcome endpoint, the launch cache, the outcome log and the local   *)
(* progress merge.  Strings are sequences of one-character strings, so     *)
(* that stripping, length bounds, the allow-list and the "_" join of the   *)
(* source_id are computed as the code computes them.  Scores are fixed     *)
(* point numbers in tenths (0.3 is 3, the percentage 30.0 is 300).         *)
(***************************************************************************)
EXTENDS Integers, Sequences, FiniteSets, TLC

VARIABLES
    now,        \* timezone.now(), in hours
    forwardUM,  \* LTI_FORWARD_TO_UM, read once at process start
    cache,      \* LTILaunchCache rows: source_id -> row
    log,        \* LTIOutcomeLog rows in insertion order
    progress,   \* the ModuleProgress row of (user 1, module 5), or NoRecord
    applied,    \* normalized scores handed to the merge since the row exists
    last,       \* the request handled last and what its handler did
    inflight    \* handlers running concurrently: id -> position and locals

vars == <<now, forwardUM, cache, log, progress, applied, last, inflight>>

-----------------------------------------------------------------------------
(* Bounds of the model *)

MaxTime == 3
MaxLog == 2
MaxApplied == 2

\* LTI_CACHE_TTL_HOURS is read from the environment (default 24); the model
\* runs with a TTL short enough for entries to expire within MaxTime
LTI_CACHE_TTL_HOURS == 2

(* Program constants *)

MaxToolLen == 64
MaxSubLen == 512
MaxUsrLen == 255
MaxGrpLen == 255
SourceIdMaxLength == 512
One == 10

-----------------------------------------------------------------------------
(* Strings *)

Rep(c, n) == [i \in 1..n |-> c]

Whitespace == {" "}

Digits == {"0", "1", "2", "3", "4", "5", "6", "7", "8", "9"}

Letters == {"a", "b", "c", "d", "e", "f", "g", "h", "i", "j", "k", "l", "m",
            "n", "o", "p", "q", "r", "s", "t", "u", "v", "w", "x", "y", "z"}

\* SAFE_ID_PATTERN = ^[\w\-\.@]+$
SafeChars == Letters \cup Digits \cup {"_", "-", ".", "@"}

RECURSIVE LStrip(_)
LStrip(s) == IF s # <<>> /\ Head(s) \in Whitespace THEN LStrip(Tail(s)) ELSE s

RECURSIVE RStrip(_)
RStrip(s) ==
    IF s # <<>> /\ s[Len(s)] \in Whitespace
    THEN RStrip(SubSeq(s, 1, Len(s) - 1))
    ELSE s

\* str.strip()
Strip(s) == RStrip(LStrip(s))

\* str.isdigit()
IsDigit(s) == s # <<>> /\ \A i \in 1..Len(s) : s[i] \in Digits

DigitVal(c) == CHOOSE n \in 0..9 : ToString(n) = c

RECURSIVE ParseInt(_)
ParseInt(s) ==
    IF s = <<>> THEN 0
    ELSE 10 * ParseInt(SubSeq(s, 1, Len(s) - 1)) + DigitVal(s[Len(s)])

\* Optional values: None is the empty tuple, a value x is <<x>>
None == <<>>
Some(x) == <<x>>

\* Python truthiness of an optional integer: None and 0 are false
Truthy(o) == o # None /\ o[1] # 0

\* int(x) of launch's module_id and of get_or_create_cache's usr/grp
IntOrNone(s) == IF IsDigit(s) THEN Some(ParseInt(s)) ELSE None

-----------------------------------------------------------------------------
(* Identifier validation and the source_id *)

SafeIdMatch(v) == v # <<>> /\ \A i \in 1..Len(v) : v[i] \in SafeChars

ValidateIdentifierMut(value, max_length) ==
    IF value = <<>> THEN [ok |-> FALSE, error |-> "missing", value |-> value]
    ELSE IF ~SafeIdMatch(Strip(value))
    THEN [ok |-> FALSE, error |-> "invalid_chars", value |-> Strip(value)]
    ELSE [ok |-> TRUE, error |-> "", value |-> Strip(value)]

\* validate_identifier: the stripped value, or the ValueError it raises
validate_identifier(value, max_length) ==
    IF value = <<>> THEN [ok |-> FALSE, error |-> "missing", value |-> value]
    ELSE IF Len(Strip(value)) > max_length
    THEN [ok |-> FALSE, error |-> "too_long", value |-> Strip(value)]
    ELSE IF ~SafeIdMatch(Strip(value))
    THEN [ok |-> FALSE, error |-> "invalid_chars", value |-> Strip(value)]
    ELSE [ok |-> TRUE, error |-> "", value |-> Strip(value)]

GenerateSourceIdUnseparated(usr, grp, sub) == usr \o grp \o sub

generate_source_id(usr, grp, sub) == usr \o <<"_">> \o grp \o <<"_">> \o sub

-----------------------------------------------------------------------------
(* Tool registry *)

codecheck == <<"c", "o", "d", "e", "c", "h", "e", "c", "k">>
ctat == <<"c", "t", "a", "t">>
paws_ctat == <<"p", "a", "w", "s", "_", "c", "t", "a", "t">>
unknown_tool == <<"u", "n", "k", "n", "o", "w", "n">>
opendsa_problems == <<"o", "p", "e", "n", "d", "s", "a", "_",
                      "p", "r", "o", "b", "l", "e", "m", "s">>

\* The process environment: the credentials of codecheck and of
\* opendsa_problems are set, nothing else is, so every launch URL has its
\* default.
EnvSet == {"CODECHECK_KEY", "CODECHECK_SECRET",
           "OPENDSA_PROBLEMS_KEY", "OPENDSA_PROBLEMS_SECRET"}

\* get_tool_configs: the entries the model uses
ToolConfigs ==
    (codecheck :> [consumer_key |-> "CODECHECK_KEY" \in EnvSet,
                   consumer_secret |-> "CODECHECK_SECRET" \in EnvSet,
                   launch_url |-> TRUE, is_paws_proxy |-> FALSE])
    @@ (ctat :> [consumer_key |-> "CTAT_KEY" \in EnvSet,
                 consumer_secret |-> "CTAT_SECRET" \in EnvSet,
                 launch_url |-> TRUE, is_paws_proxy |-> FALSE])
    @@ (paws_ctat :> [consumer_key |-> FALSE, consumer_secret |-> FALSE,
                      launch_url |-> TRUE, is_paws_proxy |-> TRUE])
    @@ (opendsa_problems :>
            [consumer_key |-> "OPENDSA_PROBLEMS_KEY" \in EnvSet,
             consumer_secret |-> "OPENDSA_PROBLEMS_SECRET" \in EnvSet,
             launch_url |-> TRUE, is_paws_proxy |-> FALSE])

\* get_tool_configs: 'lti_body_overrides' of each entry.  An override value
\* is given by the replacement fields between its braces, in order:
\* '{sub}' is <<"sub">>, '{}' is <<"">>, a value without braces is <<>>.
LtiBodyOverrides ==
    (codecheck :> <<>>)
    @@ (ctat :> << <<"usr">> >>)
    @@ (paws_ctat :> <<>>)
    @@ (opendsa_problems :> << <<"sub">>, <<"">>, <<>> >>)

\* create_lti_body: the keys of format_vars
FormatVars == {"sub", "grp", "usr", "cid", "source_id"}

\* str.format(**format_vars): the exception of the first replacement field
\* that cannot be filled, "" if there is none.  An empty field name is the
\* positional argument 0, and there are no positional arguments.
RECURSIVE FormatRaises(_)
FormatRaises(fields) ==
    IF fields = <<>> THEN ""
    ELSE IF Head(fields) = "" THEN "IndexError"
    ELSE IF Head(fields) \notin FormatVars THEN "KeyError"
    ELSE FormatRaises(Tail(fields))

\* create_lti_body, the loop over the overrides: KeyError is caught, any
\* other exception leaves the function
RECURSIVE OverridesRaise(_)
OverridesRaise(overrides) ==
    IF overrides = <<>> THEN ""
    ELSE IF FormatRaises(Head(overrides)) \notin {"", "KeyError"}
    THEN FormatRaises(Head(overrides))
    ELSE OverridesRaise(Tail(overrides))

\* create_lti_body: the exception it raises for a tool of the registry
create_lti_body(tool) == OverridesRaise(LtiBodyOverrides[tool])

InRegistry(tool) == tool \in DOMAIN ToolConfigs

IsToolConfiguredMut(tool) == InRegistry(tool)

ConfiguredInIgnoresSecret(configs, tool) ==
    IF tool \notin DOMAIN configs THEN FALSE
    ELSE IF configs[tool].is_paws_proxy THEN configs[tool].launch_url
    ELSE configs[tool].consumer_key /\ configs[tool].launch_url

\* is_tool_configured, given what get_tool_configs returned
ConfiguredIn(configs, tool) ==
    IF tool \notin DOMAIN configs THEN FALSE
    ELSE IF configs[tool].is_paws_proxy THEN configs[tool].launch_url
    ELSE configs[tool].consumer_key /\ configs[tool].consumer_secret
         /\ configs[tool].launch_url

\* is_tool_configured
is_tool_configured(tool) == ConfiguredIn(ToolConfigs, tool)

-----------------------------------------------------------------------------
(* Launch requests: the GET parameters that were supplied *)

RequiredLaunchParams == <<"tool", "sub", "usr", "grp">>

BaseLaunch == [tool |-> codecheck, sub |-> <<"e">>, usr |-> <<"1">>, grp |-> <<"7">>]

\* values that pass validation
ToolAccepted == {codecheck, paws_ctat, ctat, unknown_tool, opendsa_problems,
                 <<" ">> \o codecheck,
                 Rep("a", MaxToolLen)}
UsrAccepted == {<<"1">>, <<"1", " ">>}

\* values that do not: empty, blank, beyond the bound, outside the allow-list
RejectedValues ==
    [tool |-> {<<>>, <<" ">>, Rep("a", MaxToolLen + 1), <<"c", "!">>},
     sub |-> {<<>>, Rep("e", MaxSubLen + 1), <<"e", "/", "e">>},
     usr |-> {<<>>, Rep("1", MaxUsrLen + 1), <<"1", " ", "1">>},
     grp |-> {<<>>, Rep("7", MaxGrpLen + 1), <<"7", "?">>}]

Without(f, p) == [q \in DOMAIN f \ {p} |-> f[q]]

WithModule(r, m) == [p \in DOMAIN r \cup {"module_id"} |->
                        IF p = "module_id" THEN m ELSE r[p]]

\* the requests of the full system: launches of a direct tool with and
\* without a module, of a mediated tool, of an unconfigured and of an unknown
\* tool, and one that fails validation
NominalLaunchRequests ==
    {BaseLaunch, WithModule(BaseLaunch, <<"5">>),
     WithModule([BaseLaunch EXCEPT !.tool = paws_ctat], <<"5">>),
     [BaseLaunch EXCEPT !.tool = ctat],
     [BaseLaunch EXCEPT !.tool = unknown_tool],
     [BaseLaunch EXCEPT !.usr = <<"1", " ", "1">>]}

\* the requests of the launch endpoint taken alone
LaunchRequests ==
    NominalLaunchRequests
    \cup {[BaseLaunch EXCEPT !.tool = t, !.usr = u] : t \in ToolAccepted, u \in UsrAccepted}
    \cup UNION {{[BaseLaunch EXCEPT ![p] = v] : v \in RejectedValues[p]}
                : p \in DOMAIN BaseLaunch}
    \cup {Without(BaseLaunch, p) : p \in DOMAIN BaseLaunch}
    \cup {[BaseLaunch EXCEPT !.tool = <<"c", "!">>, !.grp = <<>>],
          [BaseLaunch EXCEPT !.tool = unknown_tool, !.sub = <<"e", "/", "e">>],
          WithModule(BaseLaunch, <<"x">>),
          WithModule([BaseLaunch EXCEPT !.tool = <<"c", "!">>], <<"5">>)}

\* request.GET.get(p, '')
Get(req, p) == IF p \in DOMAIN req THEN req[p] ELSE <<>>

\* launch: [p for p in REQUIRED_LAUNCH_PARAMS if not request.GET.get(p)]
MissingParams(req) ==
    SelectSeq(RequiredLaunchParams, LAMBDA p : Get(req, p) = <<>>)

-----------------------------------------------------------------------------
(* LaunchCache *)

NoRows == [k \in {} |-> None]

\* LTILaunchCache.get_or_create_cache: the row update_or_create stores
CacheRow(tool, usr, grp, sub, module_id, t) ==
    [tool |-> tool, usr |-> usr, grp |-> grp, sub |-> sub,
     module_id |-> module_id,
     user_id |-> IntOrNone(usr),
     course_instance_id |-> IntOrNone(grp),
     expires_at |-> t + LTI_CACHE_TTL_HOURS]

UpdateRowKeepsUser(existing, defaults) ==
    [defaults EXCEPT !.usr = existing.usr, !.user_id = existing.user_id]

UpdateRowKeepsModule(existing, defaults) ==
    [defaults EXCEPT !.module_id = existing.module_id]

\* update_or_create on an existing row: setattr for every key of defaults,
\* then save(); defaults names every field of the row but source_id
UpdateRow(existing, defaults) == defaults

UpsertKeepsExisting(rows, source_id, row) ==
    [k \in DOMAIN rows \cup {source_id} |-> IF k \in DOMAIN rows THEN rows[k] ELSE row]

\* LTILaunchCache.get_or_create_cache: update_or_create keyed by source_id
Upsert(rows, source_id, row) ==
    [k \in DOMAIN rows \cup {source_id} |->
        IF k # source_id THEN rows[k]
        ELSE IF k \in DOMAIN rows THEN UpdateRow(rows[k], row)
        ELSE row]

IsExpiredNever(row, t) == FALSE

\* LTILaunchCache.is_expired
is_expired(row, t) == t > row.expires_at

-----------------------------------------------------------------------------
(* The launch endpoint *)

\* launch, up to the cache write: what the handler decides from the request
LaunchSteps(req) ==
    LET tool == validate_identifier(Get(req, "tool"), MaxToolLen)
        sub == validate_identifier(Get(req, "sub"), MaxSubLen)
        usr == validate_identifier(Get(req, "usr"), MaxUsrLen)
        grp == validate_identifier(Get(req, "grp"), MaxGrpLen)
        firstBad == CHOOSE v \in {tool, sub, usr, grp} :
                        /\ ~v.ok
                        /\ v = tool \/ tool.ok
                        /\ v \in {tool, sub} \/ sub.ok
                        /\ v \in {tool, sub, usr} \/ usr.ok
        rejected == [status |-> 400, consulted |-> FALSE, signed |-> FALSE,
                     write |-> FALSE, kind |-> "", text |-> "",
                     tool |-> <<>>, usr |-> <<>>, grp |-> <<>>, sub |-> <<>>,
                     module_id |-> None, source_id |-> <<>>]
    IN  IF MissingParams(req) # <<>>
        THEN [rejected EXCEPT !.text = "Missing required parameters"]
        ELSE IF ~(tool.ok /\ sub.ok /\ usr.ok /\ grp.ok)
        THEN [rejected EXCEPT !.text = firstBad.error]
        ELSE IF ~is_tool_configured(tool.value)
        THEN [rejected EXCEPT !.consulted = TRUE, !.text = "not configured"]
        ELSE IF /\ ~ToolConfigs[tool.value].is_paws_proxy
                /\ create_lti_body(tool.value) # ""
        THEN \* build_signed_lti_params raises what launch does not catch
             [rejected EXCEPT !.status = 500, !.consulted = TRUE,
                              !.kind = "unhandled",
                              !.text = create_lti_body(tool.value)]
        ELSE [status |-> IF ToolConfigs[tool.value].is_paws_proxy THEN 302 ELSE 200,
              consulted |-> TRUE,
              signed |-> ~ToolConfigs[tool.value].is_paws_proxy,
              write |-> TRUE,
              kind |-> IF ToolConfigs[tool.value].is_paws_proxy
                       THEN "redirect" ELSE "form",
              text |-> "",
              tool |-> tool.value, usr |-> usr.value, grp |-> grp.value,
              sub |-> sub.value,
              module_id |-> IntOrNone(Get(req, "module_id")),
              source_id |-> generate_source_id(usr.value, grp.value, sub.value)]

\* launch: dbFault is the cache write raising, which the handler swallows
LaunchHandled(req, dbFault) ==
    \E r \in {LaunchSteps(req)} :
    LET stored == r.write /\ ~dbFault
    IN  /\ cache' = IF stored
                    THEN Upsert(cache, r.source_id,
                                CacheRow(r.tool, r.usr, r.grp, r.sub, r.module_id, now))
                    ELSE cache
        /\ last' = [op |-> "launch", req |-> req, status |-> r.status,
                    kind |-> r.kind, text |-> r.text, consulted |-> r.consulted,
                    signed |-> r.signed, cacheWrite |-> r.write,
                    writeRaised |-> r.write /\ dbFault, at |-> now,
                    source_id |-> r.source_id, tool |-> r.tool,
                    rowBefore |-> IF r.source_id \in DOMAIN cache
                                  THEN Some(cache[r.source_id]) ELSE None,
                    cacheChanged |-> cache' # cache]
        /\ UNCHANGED <<now, forwardUM, log, progress, applied>>

\* launch, one request handled in one step
Launch(req, dbFault) == LaunchHandled(req, dbFault) /\ UNCHANGED inflight

\* the clock
Tick ==
    /\ now < MaxTime
    /\ now' = now + 1
    /\ UNCHANGED <<forwardUM, cache, log, progress, applied, last, inflight>>

-----------------------------------------------------------------------------
(* Floats: fixed point in tenths, and NaN *)

F(v) == [nan |-> FALSE, v |-> v]
NaN == [nan |-> TRUE, v |-> 0]

Lt(a, b) == ~a.nan /\ ~b.nan /\ a.v < b.v
Gt(a, b) == ~a.nan /\ ~b.nan /\ a.v > b.v
Ge(a, b) == ~a.nan /\ ~b.nan /\ a.v >= b.v

\* x * 100
Times100(a) == IF a.nan THEN NaN ELSE F(100 * a.v)

\* float(s) for the shapes "nan", "d" and "d.d" with an optional sign;
\* ok is FALSE where float raises ValueError
ParseFloat(s) ==
    LET t == Strip(s)
        neg == t # <<>> /\ t[1] = "-"
        u == IF neg THEN Tail(t) ELSE t
        sign == IF neg THEN -1 ELSE 1
    IN  IF t = <<"n", "a", "n">> THEN [ok |-> TRUE, f |-> NaN]
        ELSE IF Len(u) = 1 /\ u[1] \in Digits
        THEN [ok |-> TRUE, f |-> F(sign * DigitVal(u[1]) * One)]
        ELSE IF Len(u) = 3 /\ u[1] \in Digits /\ u[2] = "." /\ u[3] \in Digits
        THEN [ok |-> TRUE, f |-> F(sign * (DigitVal(u[1]) * One + DigitVal(u[3])))]
        ELSE [ok |-> FALSE, f |-> F(0)]

\* outcome: the score_float of a raw score, and whether score_normalized is set
NormalizeScore(score) ==
    LET p == ParseFloat(score)
    IN  IF ~p.ok THEN [numeric |-> FALSE, score_float |-> F(0)]
        ELSE IF Lt(p.f, F(0)) THEN [numeric |-> TRUE, score_float |-> F(0)]
        ELSE IF Gt(p.f, F(One)) THEN [numeric |-> TRUE, score_float |-> F(One)]
        ELSE [numeric |-> TRUE, score_float |-> p.f]

-----------------------------------------------------------------------------
(* Outcome request bodies: whether the XML parses, and its elements in      *)
(* document order.  An element without text has text <<>>.                  *)

Elem(tag, ns, text) == [tag |-> tag, ns |-> ns, text |-> text]

\* root.find('.//{ns}tag'), or root.find('.//tag'): the first match or None
Find(elems, tag, ns) ==
    LET hits == SelectSeq(elems, LAMBDA e : e.tag = tag /\ e.ns = ns)
    IN  IF hits = <<>> THEN None ELSE Some(Head(hits))

\* the namespaced lookup, then the bare one
FindEither(elems, tag) ==
    IF Find(elems, tag, TRUE) # None THEN Find(elems, tag, TRUE)
    ELSE Find(elems, tag, FALSE)

ParseOutcomeXmlMut(body) ==
    LET sid == FindEither(body.elems, "sourcedId")
        score == FindEither(body.elems, "textString")
    IN  [ok |-> TRUE,
         error |-> "",
         source_id |-> IF sid = None THEN <<>> ELSE Strip(sid[1].text),
         score |-> IF score = None THEN <<>> ELSE Strip(score[1].text)]

\* parse_outcome_xml: (source_id, score), or the ValueError it raises
parse_outcome_xml(body) ==
    LET sid == FindEither(body.elems, "sourcedId")
        score == FindEither(body.elems, "textString")
        failed(msg) == [ok |-> FALSE, error |-> msg, source_id |-> <<>>, score |-> <<>>]
    IN  IF ~body.wellformed THEN failed("Invalid XML")
        ELSE IF sid = None \/ sid[1].text = <<>>
        THEN failed("Missing sourcedId in outcome XML")
        ELSE IF score = None \/ score[1].text = <<>>
        THEN failed("Missing textString (score) in outcome XML")
        ELSE [ok |-> TRUE, error |-> "",
              source_id |-> Strip(sid[1].text), score |-> Strip(score[1].text)]

LaunchedId == <<"1", "_", "7", "_", "e">>
GhostId == <<"g", "h", "o", "s", "t">>

ScoreInputs == {<<"0", ".", "0">>, <<"0", ".", "3">>, <<"0", ".", "5">>, <<"x">>,
                <<"n", "a", "n">>, <<"-", "1">>, <<"1", ".", "5">>,
                <<"0", ".", "8">>}

OutcomeBodies ==
    {[wellformed |-> FALSE, elems |-> <<>>],
     [wellformed |-> TRUE, elems |-> <<Elem("textString", TRUE, <<"0", ".", "5">>)>>],
     [wellformed |-> TRUE, elems |-> <<Elem("sourcedId", TRUE, <<>>),
                                       Elem("textString", TRUE, <<"0", ".", "5">>)>>],
     [wellformed |-> TRUE, elems |-> <<Elem("sourcedId", TRUE, LaunchedId)>>],
     [wellformed |-> TRUE, elems |-> <<Elem("sourcedId", FALSE, LaunchedId),
                                       Elem("textString", FALSE, <<>>)>>],
     [wellformed |-> TRUE, elems |-> <<Elem("sourcedId", FALSE, LaunchedId),
                                       Elem("textString", FALSE, <<"0", ".", "5">>)>>],
     [wellformed |-> TRUE, elems |-> <<Elem("sourcedId", TRUE, GhostId),
                                       Elem("textString", TRUE, <<"0", ".", "5">>)>>]}
    \cup {[wellformed |-> TRUE, elems |-> <<Elem("sourcedId", TRUE, LaunchedId),
                                            Elem("textString", TRUE, sc)>>]
          : sc \in ScoreInputs}

\* what the UM service does with the GET
UMReplies == {[kind |-> "status", code |-> 200], [kind |-> "status", code |-> 500],
              [kind |-> "status", code |-> 204],
              [kind |-> "timeout", code |-> 0]}

\* storage faults of one request: none, the cache lookup raises, the progress
\* update raises, the first log write raises, every log write raises
Faults == {"none", "lookup", "progress", "save", "save_all"}

-----------------------------------------------------------------------------
(* The progress store of the LMS core *)

Users == {1}
Modules == {5}
CourseInstances == {7}

\* the row ModuleProgress.get_or_create_progress creates for a student
FreshProgress ==
    [score |-> None, progress |-> F(0), is_complete |-> FALSE, success |-> FALSE,
     attempts |-> 0]

MergeMut(rec, score) ==
    IF rec.score = None \/ Gt(Times100(score), rec.score[1])
    THEN [updated |-> TRUE,
          rec |-> [score |-> Some(Times100(score)), progress |-> score,
                   is_complete |-> Ge(score, F(One)),
                   success |-> Ge(score, F((7 * One) \div 10)),
                   attempts |-> rec.attempts + 1]]
    ELSE [updated |-> FALSE, rec |-> rec]

MergeTakesLatest(rec, score) ==
    [updated |-> TRUE,
     rec |-> [score |-> Some(Times100(score)), progress |-> score,
              is_complete |-> Ge(score, F(One)),
              success |-> Ge(score, F((7 * One) \div 10)),
              attempts |-> rec.attempts + 1]]

MergeCountsEveryAttempt(rec, score) ==
    IF rec.score = None \/ Gt(score, rec.score[1])
    THEN [updated |-> TRUE,
          rec |-> [score |-> Some(Times100(score)), progress |-> score,
                   is_complete |-> Ge(score, F(One)),
                   success |-> Ge(score, F((7 * One) \div 10)),
                   attempts |-> rec.attempts + 1]]
    ELSE [updated |-> FALSE, rec |-> [rec EXCEPT !.attempts = @ + 1]]

\* _update_module_progress, "Update progress": the compare and the write
Merge(rec, score) ==
    IF rec.score = None \/ Gt(score, rec.score[1])
    THEN [updated |-> TRUE,
          rec |-> [score |-> Some(Times100(score)), progress |-> score,
                   is_complete |-> Ge(score, F(One)),
                   success |-> Ge(score, F((7 * One) \div 10)),
                   attempts |-> rec.attempts + 1]]
    ELSE [updated |-> FALSE, rec |-> rec]

\* _update_module_progress: rows is the progress store (no row, or the row);
\* raised is an exception inside the function, which it turns into False.
\* A NaN score that the merge would store makes progress.save() raise
\* (SQLite binds NaN as NULL and ModuleProgress.progress is NOT NULL); the
\* row get_or_create_progress created stays.
update_module_progress(rows, user_id, module_id, course_instance_id, score, raised) ==
    LET none == [updated |-> FALSE, merged |-> FALSE, rows |-> rows]
        found == IF Truthy(course_instance_id)
                    /\ course_instance_id[1] \in CourseInstances
                 THEN IF rows = None THEN Some(FreshProgress) ELSE rows
                 ELSE rows
        m == Merge(found[1], score)
    IN  IF raised THEN none
        ELSE IF user_id[1] \notin Users \/ module_id[1] \notin Modules THEN none
        ELSE IF found = None THEN none
        ELSE IF m.updated /\ score.nan
        THEN [updated |-> FALSE, merged |-> FALSE, rows |-> found]
        ELSE [updated |-> m.updated, merged |-> TRUE, rows |-> Some(m.rec)]

-----------------------------------------------------------------------------
(* The outcome endpoint *)

NewLogEntry ==
    [source_id |-> <<>>, tool |-> <<>>, score_raw |-> <<>>,
     score_normalized |-> None, success |-> FALSE, um_url |-> "",
     um_response_status |-> None, error_message |-> ""]

\* log_entry.save(): SQLite stores a NaN score_normalized as NULL
SavedRow(entry) ==
    IF entry.score_normalized # None /\ entry.score_normalized[1].nan
    THEN [entry EXCEPT !.score_normalized = None]
    ELSE entry

\* create_outcome_response inside HttpResponse
Pox(success, description) ==
    [status |-> 200,
     codeMajor |-> IF success THEN "success" ELSE "failure",
     description |-> description]

\* LTILaunchCache.get_valid_cache: the row or None, and the rows left
get_valid_cache(rows, source_id, t) ==
    IF source_id \notin DOMAIN rows THEN [row |-> None, rows |-> rows]
    ELSE IF is_expired(rows[source_id], t)
    THEN [row |-> None, rows |-> [k \in DOMAIN rows \ {source_id} |-> rows[k]]]
    ELSE [row |-> Some(rows[source_id]), rows |-> rows]

UMAttemptsAfterProgressOnly(forward, progress_updated) ==
    IF forward /\ progress_updated THEN 1 ELSE 0

\* outcome, "STEP 2": the number of requests.get calls of one outcome
UMAttempts(forward, progress_updated) == IF forward THEN 1 ELSE 0

OverallSuccessBoth(progress_updated, um_success) == progress_updated /\ um_success

\* outcome, "Final Result": overall_success
OverallSuccess(progress_updated, um_success) == progress_updated \/ um_success

\* outcome, the try block up to the first log_entry.save() or to the
\* exception that leaves it, given what get_valid_cache returned (found):
\* entry is log_entry at that point, raised says an exception left the block
\* before the save
OutcomeStepsWith(body, um, fault, found) ==
    LET parsed == parse_outcome_xml(body)
        norm == NormalizeScore(parsed.score)
        e1 == [NewLogEntry EXCEPT
                 !.source_id = parsed.source_id, !.score_raw = parsed.score,
                 !.score_normalized =
                     IF norm.numeric THEN Some(norm.score_float) ELSE None]
        row == found.row[1]
        wanted == Truthy(row.user_id) /\ Truthy(row.module_id)
        upd == IF wanted
               THEN update_module_progress(progress, row.user_id, row.module_id,
                        row.course_instance_id, norm.score_float,
                        fault = "progress")
               ELSE [updated |-> FALSE, merged |-> FALSE, rows |-> progress]
        um_gets == UMAttempts(forwardUM, upd.updated)
        um_success == IF forwardUM
                      THEN um_gets > 0 /\ um.kind = "status" /\ um.code = 200
                      ELSE TRUE
        e2 == [e1 EXCEPT
                 !.tool = row.tool,
                 !.um_url = IF forwardUM THEN "um" ELSE "",
                 !.um_response_status =
                     IF forwardUM /\ um.kind = "status" THEN Some(um.code) ELSE None,
                 !.error_message =
                     IF ~forwardUM \/ um_success THEN ""
                     ELSE IF um.kind = "timeout" THEN "UM service timeout"
                     ELSE "UM service returned error",
                 !.success = OverallSuccess(upd.updated, um_success)]
        base == [entry |-> NewLogEntry, raised |-> FALSE, resp |-> Pox(FALSE, ""),
                 cache |-> cache, progress |-> progress, lookup |-> "none",
                 progress_called |-> FALSE, progress_updated |-> FALSE,
                 merged |-> FALSE, score |-> F(0),
                 um_requested |-> FALSE, um_success |-> FALSE, um_gets |-> 0]
    IN  IF ~parsed.ok
        THEN [base EXCEPT
                !.entry = [NewLogEntry EXCEPT !.error_message = parsed.error],
                !.resp = Pox(FALSE, "XML parse error: " \o parsed.error)]
        ELSE IF fault = "lookup"
        THEN [base EXCEPT !.entry = e1, !.raised = TRUE, !.lookup = "raised"]
        ELSE IF found.row = None
        THEN [base EXCEPT
                !.entry = [e1 EXCEPT
                             !.error_message = "Launch context not found or expired"],
                !.resp = Pox(FALSE, "Launch context not found or expired"),
                !.cache = found.rows, !.lookup = "miss"]
        ELSE [base EXCEPT
                !.entry = e2,
                !.resp = IF e2.success THEN Pox(TRUE, "Score recorded")
                         ELSE Pox(FALSE, "Failed to record score"),
                !.lookup = "hit",
                !.progress = upd.rows,
                !.progress_called = wanted,
                !.progress_updated = upd.updated,
                !.merged = upd.merged,
                !.score = norm.score_float,
                !.um_requested = um_gets > 0,
                !.um_success = um_success,
                !.um_gets = um_gets]

\* outcome, the try block with the lookup made in the same step
OutcomeSteps(body, um, fault) ==
    OutcomeStepsWith(body, um, fault,
        get_valid_cache(cache, parse_outcome_xml(body).source_id, now))

OuterHandlerNoRetry(entry, saveRaises) ==
    [entry |-> [entry EXCEPT !.error_message = "Unexpected error"],
     saved |-> FALSE,
     resp |-> Pox(FALSE, "Internal server error")]

OuterHandlerPropagates(entry, saveRaises) ==
    [entry |-> [entry EXCEPT !.error_message = "Unexpected error"],
     saved |-> ~saveRaises,
     resp |-> [status |-> 500, codeMajor |-> "", description |-> ""]]

\* outcome, "except Exception": the error message, the second log write
\* (saveRaises: it raises too, which is swallowed) and the failure response
OuterHandler(entry, saveRaises) ==
    [entry |-> [entry EXCEPT !.error_message = "Unexpected error"],
     saved |-> ~saveRaises,
     resp |-> Pox(FALSE, "Internal server error")]

\* outcome for a POST after the try block gave r: its log write, and the
\* outer handler when an exception left the block or the log write raised
OutcomeFinish(r, body, um, fault) ==
    LET outer == r.raised \/ fault \in {"save", "save_all"}
        o == OuterHandler(r.entry, fault = "save_all")
        entry == IF outer THEN o.entry ELSE r.entry
        saved == IF outer THEN o.saved ELSE TRUE
        resp == IF outer THEN o.resp ELSE r.resp
    IN  /\ Len(log) < MaxLog
        /\ Len(applied) < MaxApplied
        /\ log' = IF saved THEN Append(log, SavedRow(entry)) ELSE log
        /\ cache' = r.cache
        /\ progress' = r.progress
        /\ applied' = IF r.merged THEN Append(applied, r.score) ELSE applied
        /\ last' = [op |-> "outcome", method |-> "POST", body |-> body,
                    status |-> resp.status, codeMajor |-> resp.codeMajor,
                    description |-> resp.description,
                    outer |-> outer,
                    saveRaised |-> IF fault = "save_all" THEN "all"
                                   ELSE IF fault = "save" THEN "first"
                                   ELSE "no",
                    logBefore |-> Len(log),
                    at |-> now,
                    ctxExpires |->
                        IF parse_outcome_xml(body).source_id \in DOMAIN cache
                        THEN Some(cache[parse_outcome_xml(body).source_id].expires_at)
                        ELSE None,
                    lookup |-> r.lookup,
                    score |-> r.score,
                    merged |-> r.merged,
                    progressBefore |-> progress,
                    progress_called |-> r.progress_called,
                    progress_updated |-> r.progress_updated,
                    progress_raised |-> r.progress_called /\ fault = "progress",
                    um_requested |-> r.um_requested,
                    um_gets |-> r.um_gets,
                    um_success |-> r.um_success,
                    um_reply |-> IF r.um_requested THEN um ELSE [kind |-> "", code |-> 0],
                    cacheChanged |-> cache' # cache,
                    progressChanged |-> progress' # progress]
        /\ UNCHANGED <<now, forwardUM>>

\* outcome for a POST handled in one step
OutcomePost(body, um, fault) ==
    \E r \in {OutcomeSteps(body, um, fault)} :
        /\ OutcomeFinish(r, body, um, fault)
        /\ UNCHANGED inflight

\* outcome for another method: require_http_methods answers 405
OutcomeNotPost(method) ==
    /\ last' = [op |-> "outcome", method |-> method, status |-> 405,
                logBefore |-> Len(log)]
    /\ UNCHANGED <<now, forwardUM, cache, log, progress, applied, inflight>>

-----------------------------------------------------------------------------

Init ==
    /\ now = 0
    /\ forwardUM \in BOOLEAN
    /\ cache = NoRows
    /\ log = <<>>
    /\ progress = None
    /\ applied = <<>>
    /\ last = [op |-> "start"]
    /\ inflight = <<>>

\* the requests of the full system: a launch with and without a module, and
\* outcomes for the launched and for a never launched source_id, on time or
\* late, answered or not by the UM service, with the storage working
SystemLaunchRequests == {BaseLaunch, WithModule(BaseLaunch, <<"5">>)}

SystemOutcomeBodies ==
    {[wellformed |-> TRUE, elems |-> <<Elem("sourcedId", TRUE, LaunchedId),
                                       Elem("textString", TRUE, sc)>>]
     : sc \in {<<"0", ".", "3">>, <<"0", ".", "5">>}}
    \cup {[wellformed |-> TRUE, elems |-> <<Elem("sourcedId", TRUE, GhostId),
                                            Elem("textString", TRUE, <<"0", ".", "5">>)>>]}

SystemUMReplies == {[kind |-> "status", code |-> 200], [kind |-> "timeout", code |-> 0]}

Next ==
    \/ \E req \in SystemLaunchRequests : Launch(req, FALSE)
    \/ \E body \in SystemOutcomeBodies, um \in SystemUMReplies :
            OutcomePost(body, um, "none")
    \/ OutcomeNotPost("GET")
    \/ Tick

Spec == Init /\ [][Next]_vars

\* the launch endpoint alone, over every launch request of the model
NextLaunch ==
    \/ \E req \in LaunchRequests, dbFault \in BOOLEAN : Launch(req, dbFault)
    \/ Tick

SpecLaunch == Init /\ [][NextLaunch]_vars

\* the outcome endpoint over every body, UM reply and storage fault of the
\* model, for the first outcome of a run, with the launches and the requests
\* of another method before it; later outcomes are those of Next with the
\* UM service accepting
NextOutcome ==
    \/ \E req \in SystemLaunchRequests : log = <<>> /\ Launch(req, FALSE)
    \/ \E body \in OutcomeBodies, um \in UMReplies, fault \in Faults :
            /\ log = <<>>
            /\ ~(last.op = "outcome" /\ last.method = "POST")
            /\ OutcomePost(body, um, fault)
    \/ \E body \in SystemOutcomeBodies :
            OutcomePost(body, [kind |-> "status", code |-> 200], "none")
    \/ \E method \in {"GET", "PUT"} : log = <<>> /\ OutcomeNotPost(method)

SpecOutcome == Init /\ [][NextOutcome]_vars

-----------------------------------------------------------------------------
(* Two outcome handlers in _update_module_progress at the same time.  Each  *)
(* worker process loads the row into its own object, compares and assigns   *)
(* on that object, and save() writes every field of it.                     *)

Handlers == {1, 2}

MergeScores == {F(0), F(3), F(5), F(8), F(One)}

InitMerge ==
    /\ now = 0
    /\ forwardUM = FALSE
    /\ cache = NoRows
    /\ log = <<>>
    /\ progress = Some(FreshProgress)
    /\ applied = <<>>
    /\ last = [op |-> "start"]
    /\ inflight \in [Handlers -> {[pc |-> "start", score |-> s, rec |-> FreshProgress,
                                   updated |-> FALSE] : s \in MergeScores}]

\* get_or_create_progress: the handler's own copy of the row
MergeRead(h) ==
    /\ inflight[h].pc = "start"
    /\ inflight' = [inflight EXCEPT ![h].pc = "read", ![h].rec = progress[1]]
    /\ UNCHANGED <<now, forwardUM, cache, log, progress, applied, last>>

\* the compare on the copy and, when it passes, progress.save()
MergeWrite(h) ==
    \E m \in {Merge(inflight[h].rec, inflight[h].score)} :
        /\ inflight[h].pc = "read"
        /\ progress' = IF m.updated THEN Some(m.rec) ELSE progress
        /\ inflight' = [inflight EXCEPT ![h].pc = "done", ![h].updated = m.updated]
        /\ UNCHANGED <<now, forwardUM, cache, log, applied, last>>

NextMerge == \E h \in Handlers : MergeRead(h) \/ MergeWrite(h)

SpecMerge == InitMerge /\ [][NextMerge]_vars

-----------------------------------------------------------------------------
(* Two launches that derive the same source_id at the same time, each in    *)
(* get_or_create_cache: update_or_create looks the row up, creates it when  *)
(* there is none (falling back to the update when the insert meets the      *)
(* unique constraint) and otherwise assigns the defaults and saves.         *)

RacingLaunchRequests ==
    {BaseLaunch, WithModule(BaseLaunch, <<"5">>),
     [BaseLaunch EXCEPT !.tool = paws_ctat],
     WithModule([BaseLaunch EXCEPT !.tool = paws_ctat], <<"5">>)}

LaunchRow(req, t) ==
    LET r == LaunchSteps(req)
    IN  CacheRow(r.tool, r.usr, r.grp, r.sub, r.module_id, t)

InitRelaunch ==
    /\ now = 0
    /\ forwardUM = FALSE
    /\ cache \in {NoRows, Upsert(NoRows, LaunchedId, LaunchRow(BaseLaunch, 0))}
    /\ log = <<>>
    /\ progress = None
    /\ applied = <<>>
    /\ last = [op |-> "start"]
    /\ inflight \in [Handlers -> {[pc |-> "start", req |-> r,
                                   row |-> LaunchRow(r, 0), raised |-> FALSE,
                                   status |-> 0]
                                  : r \in RacingLaunchRequests}]

\* expires_at = now + ttl, then the lookup of update_or_create
CacheGet(h) ==
    /\ inflight[h].pc = "start"
    /\ inflight' = [inflight EXCEPT
            ![h].row = LaunchRow(inflight[h].req, now),
            ![h].pc = IF LaunchedId \in DOMAIN cache THEN "update" ELSE "create"]
    /\ UNCHANGED <<now, forwardUM, cache, log, progress, applied, last>>

\* another handler is between its lookup and its write
OtherInTransaction(h) ==
    \E g \in Handlers \ {h} : inflight[g].pc \in {"create", "update"}

\* the rest of launch: the response is built whether or not the write raised
Respond(h, raised) ==
    [inflight EXCEPT ![h].pc = "done", ![h].raised = raised,
                     ![h].status = LaunchSteps(inflight[h].req).status]

\* the insert, or the update when the row has appeared meanwhile; locked is
\* SQLite refusing the write while the other transaction is open, which
\* launch logs and swallows
CacheCreate(h, locked) ==
    /\ inflight[h].pc = "create"
    /\ locked => OtherInTransaction(h)
    /\ cache' = IF locked THEN cache
                ELSE Upsert(cache, LaunchedId, inflight[h].row)
    /\ inflight' = Respond(h, locked)
    /\ last' = IF locked THEN last ELSE [op |-> "cache_write", by |-> h]
    /\ UNCHANGED <<now, forwardUM, log, progress, applied>>

\* setattr for every default and save()
CacheSave(h, locked) ==
    /\ inflight[h].pc = "update"
    /\ locked => OtherInTransaction(h)
    /\ cache' = IF locked THEN cache
                ELSE Upsert(cache, LaunchedId, inflight[h].row)
    /\ inflight' = Respond(h, locked)
    /\ last' = IF locked THEN last ELSE [op |-> "cache_write", by |-> h]
    /\ UNCHANGED <<now, forwardUM, log, progress, applied>>

NextRelaunch ==
    \/ \E h \in Handlers : CacheGet(h)
    \/ \E h \in Handlers, locked \in BOOLEAN : CacheCreate(h, locked)
    \/ \E h \in Handlers, locked \in BOOLEAN : CacheSave(h, locked)
    \/ Tick

SpecRelaunch == InitRelaunch /\ [][NextRelaunch]_vars

-----------------------------------------------------------------------------
(* The reaper (cleanup_lti_cache, which calls cleanup_expired) running while *)
(* an outcome handler is between get_valid_cache and its use of the entry.   *)
(* The handler keeps the object get_valid_cache returned; nothing in outcome *)
(* reads the row again.                                                      *)

SecondLaunch == [BaseLaunch EXCEPT !.usr = <<"2">>]

SecondId == generate_source_id(SecondLaunch.usr, SecondLaunch.grp, SecondLaunch.sub)

\* the rows a cache can hold for the two launches, by expiry time
ReapCaches ==
    LET rowsOf(id, req) ==
            {NoRows} \cup
            {Upsert(NoRows, id, [LaunchRow(req, 0) EXCEPT !.expires_at = e])
             : e \in 0..MaxTime}
        join(c, d) == [k \in DOMAIN c \cup DOMAIN d |->
                          IF k \in DOMAIN c THEN c[k] ELSE d[k]]
    IN  {join(c, d) : c \in rowsOf(LaunchedId, WithModule(BaseLaunch, <<"5">>)),
                      d \in rowsOf(SecondId, SecondLaunch)}

CleanupKeepsBoundary(rows, t) ==
    LET expired == {k \in DOMAIN rows : rows[k].expires_at + 1 < t}
    IN  [rows |-> [k \in DOMAIN rows \ expired |-> rows[k]],
         count |-> Cardinality(expired)]

\* LTILaunchCache.cleanup_expired: filter(expires_at__lt=now).delete(), the
\* rows left and the number deleted
cleanup_expired(rows, t) ==
    LET expired == {k \in DOMAIN rows : rows[k].expires_at < t}
    IN  [rows |-> [k \in DOMAIN rows \ expired |-> rows[k]],
         count |-> Cardinality(expired)]

\* cleanup_lti_cache --dry-run: filter(expires_at__lt=now).count()
dry_run_count(rows, t) ==
    Cardinality({k \in DOMAIN rows : rows[k].expires_at < t})

InitReap ==
    /\ now = 0
    /\ forwardUM \in BOOLEAN
    /\ cache \in ReapCaches
    /\ log = <<>>
    /\ progress = None
    /\ applied = <<>>
    /\ last = [op |-> "start"]
    /\ inflight \in {[pc |-> "start", body |-> b, row |-> None, gone |-> FALSE]
                     : b \in SystemOutcomeBodies}

\* outcome up to "STEP 0": the parse and get_valid_cache, which deletes the
\* row it finds expired
ReapLookup ==
    \E found \in {get_valid_cache(cache, parse_outcome_xml(inflight.body).source_id,
                                  now)} :
        /\ inflight.pc = "start"
        /\ cache' = found.rows
        /\ inflight' = [inflight EXCEPT !.pc = "checked", !.row = found.row]
        /\ UNCHANGED <<now, forwardUM, log, progress, applied, last>>

\* outcome from "if not cache_entry" on, with the object it was given
ReapUse ==
    \E r \in {OutcomeStepsWith(inflight.body, [kind |-> "status", code |-> 200],
                               "none", [row |-> inflight.row, rows |-> cache])} :
        /\ inflight.pc = "checked"
        /\ OutcomeFinish(r, inflight.body, [kind |-> "status", code |-> 200], "none")
        /\ inflight' = [inflight EXCEPT
                !.pc = "done",
                !.gone = parse_outcome_xml(inflight.body).source_id
                            \notin DOMAIN cache]

\* the command last ran without --dry-run at this instant on this cache
RanJustBefore ==
    /\ last.op = "cleanup"
    /\ ~last.dry_run
    /\ last.at = now
    /\ last.after = cache

\* the management command without --dry-run
Cleanup ==
    \E c \in {cleanup_expired(cache, now)} :
        /\ cache' = c.rows
        /\ last' = [op |-> "cleanup", dry_run |-> FALSE, count |-> c.count,
                    before |-> cache, after |-> c.rows, at |-> now,
                    again |-> RanJustBefore]
        /\ UNCHANGED <<now, forwardUM, log, progress, applied, inflight>>

\* the management command with --dry-run
CleanupDryRun ==
    /\ last' = [op |-> "cleanup", dry_run |-> TRUE,
                count |-> dry_run_count(cache, now),
                before |-> cache, after |-> cache, at |-> now,
                again |-> RanJustBefore]
    /\ UNCHANGED <<now, forwardUM, cache, log, progress, applied, inflight>>

NextReap ==
    \/ ReapLookup
    \/ ReapUse
    \/ Cleanup
    \/ CleanupDryRun
    \/ Tick

SpecReap == InitReap /\ [][NextReap]_vars

-----------------------------------------------------------------------------
(* sign_lti_request: the body is form-encoded, signed by oauthlib (which    *)
(* decodes the body, adds the oauth_ parameters and encodes again) and read *)
(* back into a dict with parse_qsl.  HMAC-SHA1 is taken as collision-free:  *)
(* the signature is stood for by a digest that keeps the text it is         *)
(* computed over and the secret.  The nonce generator is taken as never     *)
(* repeating.                                                               *)

\* the characters quote_plus writes as %XX, among those of the model
PercentCodes ==
    [c \in {"+", "&", "=", "%"} |->
        CASE c = "+" -> <<"2", "B">>
          [] c = "&" -> <<"2", "6">>
          [] c = "=" -> <<"3", "D">>
          [] c = "%" -> <<"2", "5">>]

RECURSIVE QuotePlus(_)
\* urllib.parse.quote_plus
QuotePlus(str) ==
    IF str = <<>> THEN <<>>
    ELSE (IF Head(str) = " " THEN <<"+">>
          ELSE IF Head(str) \in DOMAIN PercentCodes
               THEN <<"%">> \o PercentCodes[Head(str)]
               ELSE <<Head(str)>>) \o QuotePlus(Tail(str))

RECURSIVE UnquotePlus(_)
\* urllib.parse.unquote_plus, as parse_qsl applies it to names and values
UnquotePlus(str) ==
    IF str = <<>> THEN <<>>
    ELSE IF Head(str) = "+" THEN <<" ">> \o UnquotePlus(Tail(str))
    ELSE IF Head(str) = "%" /\ Len(str) >= 3
            /\ \E c \in DOMAIN PercentCodes : PercentCodes[c] = <<str[2], str[3]>>
    THEN <<CHOOSE c \in DOMAIN PercentCodes : PercentCodes[c] = <<str[2], str[3]>>>>
            \o UnquotePlus(SubSeq(str, 4, Len(str)))
    ELSE <<Head(str)>> \o UnquotePlus(Tail(str))

RECURSIVE UrlEncode(_)
\* urllib.parse.urlencode of the items of a dict, in order
UrlEncode(pairs) ==
    IF pairs = <<>> THEN <<>>
    ELSE QuotePlus(pairs[1][1]) \o <<"=">> \o QuotePlus(pairs[1][2])
            \o (IF Len(pairs) > 1 THEN <<"&">> ELSE <<>>)
            \o UrlEncode(Tail(pairs))

\* the first position of c in str, 0 when it is not there
IndexOf(str, c) ==
    IF \E i \in 1..Len(str) : str[i] = c
    THEN CHOOSE i \in 1..Len(str) : str[i] = c /\ \A j \in 1..(i - 1) : str[j] # c
    ELSE 0

RECURSIVE SplitOn(_, _)
\* str.split(sep)
SplitOn(str, sep) ==
    LET i == IndexOf(str, sep)
    IN  IF i = 0 THEN <<str>>
        ELSE <<SubSeq(str, 1, i - 1)>> \o SplitOn(SubSeq(str, i + 1, Len(str)), sep)

RECURSIVE QslPairs(_, _)
\* parse_qsl over the pieces between the & of the query string
QslPairs(pieces, keep_blank_values) ==
    IF pieces = <<>> THEN <<>>
    ELSE LET piece == Head(pieces)
             i == IndexOf(piece, "=")
             name == IF i = 0 THEN piece ELSE SubSeq(piece, 1, i - 1)
             value == IF i = 0 THEN <<>> ELSE SubSeq(piece, i + 1, Len(piece))
             rest == QslPairs(Tail(pieces), keep_blank_values)
         IN  IF piece = <<>> \/ (value = <<>> /\ ~keep_blank_values)
             THEN rest
             ELSE << <<UnquotePlus(name), UnquotePlus(value)>> >> \o rest

\* urllib.parse.parse_qsl: a pair with an empty value is dropped unless
\* keep_blank_values
parse_qsl(qs, keep_blank_values) == QslPairs(SplitOn(qs, "&"), keep_blank_values)

\* dict(pairs): the value of a name is that of its last pair
DictOf(pairs) ==
    [k \in {pairs[i][1] : i \in 1..Len(pairs)} |->
        pairs[CHOOSE i \in 1..Len(pairs) :
                 pairs[i][1] = k /\ \A j \in (i + 1)..Len(pairs) : pairs[j][1] # k][2]]

RECURSIVE Joined(_)
\* the characters of a text as one string
Joined(text) ==
    IF text = <<>> THEN ""
    ELSE IF Len(text) = 1 THEN text[1]
    ELSE Joined(SubSeq(text, 1, Len(text) \div 2))
            \o Joined(SubSeq(text, Len(text) \div 2 + 1, Len(text)))

\* the signature of a text, in characters that need no quoting
Digest(text) ==
    <<Joined([i \in 1..Len(text) |->
                IF text[i] \in DOMAIN PercentCodes
                THEN PercentCodes[text[i]][1] \o PercentCodes[text[i]][2]
                ELSE text[i]])>>

\* oauthlib Client.sign with signature_type BODY: the body decoded with
\* blank values kept, the oauth_ parameters, the signature over all of
\* them, encoded again
client_sign(consumer_key, consumer_secret, launch_url, unsigned, nonce, timestamp) ==
    LET params == parse_qsl(unsigned, TRUE) \o
                  << <<<<"oauth_nonce">>, nonce>>,
                     <<<<"oauth_timestamp">>, timestamp>>,
                     <<<<"oauth_version">>, <<"1", ".", "0">>>>,
                     <<<<"oauth_signature_method">>, <<"HMAC-SHA1">>>>,
                     <<<<"oauth_consumer_key">>, consumer_key>> >>
        signature == Digest(<<"POST">> \o launch_url \o UrlEncode(params)
                                \o consumer_secret)
    IN  UrlEncode(params \o << <<<<"oauth_signature">>, signature>> >>)

sign_lti_request(body, consumer_key, consumer_secret, launch_url, nonce, timestamp) ==
    DictOf(parse_qsl(client_sign(consumer_key, consumer_secret, launch_url,
                                 UrlEncode(body), nonce, timestamp),
                     FALSE))

\* bodies of two fields, as dict items in order
SignValues == {<<>>, <<"a">>, <<"a", " ", "b">>, <<"&", "=", "+", "%">>}

SignBodies ==
    {<< <<<<"user_id">>, u>>, <<<<"custom_cid">>, c>> >> : u \in SignValues, c \in SignValues}

MaxCalls == 2

InitSign ==
    /\ now = 0
    /\ forwardUM = FALSE
    /\ cache = NoRows
    /\ log = <<>>
    /\ progress = None
    /\ applied = <<>>
    /\ last = [op |-> "start"]
    /\ inflight \in {[body |-> b, consumer_key |-> k, calls |-> 0]
                     : b \in SignBodies, k \in {<<"k">>, <<"k", "2">>}}

\* one call of sign_lti_request; the nonce is a fresh random number followed
\* by the timestamp
SignCall ==
    \E signed \in {sign_lti_request(inflight.body, inflight.consumer_key, <<"s">>,
                                     <<"https://example.com/lti">>,
                                     <<ToString(inflight.calls), ToString(now)>>,
                                     <<ToString(now)>>)} :
        /\ inflight.calls < MaxCalls
        /\ inflight' = [inflight EXCEPT !.calls = @ + 1]
        /\ last' = [op |-> "sign", body |-> inflight.body,
                    consumer_key |-> inflight.consumer_key,
                    signed |-> signed,
                    prev |-> IF last.op = "sign" THEN Some(last.signed) ELSE None]
        /\ UNCHANGED <<now, forwardUM, cache, log, progress, applied>>

NextSign == SignCall \/ Tick

SpecSign == InitSign /\ [][NextSign]_vars

-----------------------------------------------------------------------------
(* create_lti_body, one override value.  A value is a sequence of segments: *)
(* literal text, or a replacement field {name} ({} has the empty name).     *)

Literal(text) == [field |-> FALSE, text |-> text]

Field(name) == [field |-> TRUE, text |-> name]

OverrideSegments ==
    {Literal("x")} \cup {Field(n) : n \in FormatVars \cup {"foo", ""}}

MaxSegments == 2

OverrideValues ==
    UNION {[1..n -> OverrideSegments] : n \in 0..MaxSegments}

\* the replacement field names of a value, in order
RECURSIVE FieldsOf(_)
FieldsOf(value) ==
    IF value = <<>> THEN <<>>
    ELSE (IF Head(value).field THEN <<Head(value).text>> ELSE <<>>)
            \o FieldsOf(Tail(value))

\* the value as written
RECURSIVE Raw(_)
Raw(value) ==
    IF value = <<>> THEN <<>>
    ELSE (IF Head(value).field THEN <<"{", Head(value).text, "}">>
          ELSE <<Head(value).text>>) \o Raw(Tail(value))

\* value.format(**format_vars) when every field is a key of format_vars
RECURSIVE Format(_, _)
Format(value, format_vars) ==
    IF value = <<>> THEN <<>>
    ELSE (IF Head(value).field THEN format_vars[Head(value).text]
          ELSE <<Head(value).text>>) \o Format(Tail(value), format_vars)

\* create_lti_body, the body of the loop over the overrides: the exception
\* that leaves it ("" for none) and the value assigned to body[key]
apply_override(value, format_vars) ==
    LET e == FormatRaises(FieldsOf(value))
    IN  IF FieldsOf(value) = <<>> THEN [raised |-> "", value |-> Raw(value)]
        ELSE IF e = "" THEN [raised |-> "", value |-> Format(value, format_vars)]
        ELSE IF e = "KeyError" THEN [raised |-> "", value |-> Raw(value)]
        ELSE [raised |-> e, value |-> <<>>]

\* create_lti_body: format_vars for the launch of BaseLaunch, with and
\* without cid
LaunchFormatVars(cid) ==
    [n \in FormatVars |->
        CASE n = "sub" -> BaseLaunch.sub
          [] n = "grp" -> BaseLaunch.grp
          [] n = "usr" -> BaseLaunch.usr
          [] n = "cid" -> cid
          [] n = "source_id" -> LaunchedId]

InitOverride ==
    /\ now = 0
    /\ forwardUM = FALSE
    /\ cache = NoRows
    /\ log = <<>>
    /\ progress = None
    /\ applied = <<>>
    /\ last = [op |-> "start"]
    /\ inflight \in {[pc |-> "start", value |-> v, format_vars |-> LaunchFormatVars(c)]
                     : v \in OverrideValues, c \in {<<>>, <<"c">>}}

ApplyOverride ==
    \E r \in {apply_override(inflight.value, inflight.format_vars)} :
        /\ inflight.pc = "start"
        /\ inflight' = [inflight EXCEPT !.pc = "done"]
        /\ last' = [op |-> "override", value |-> inflight.value,
                    format_vars |-> inflight.format_vars,
                    raised |-> r.raised, result |-> r.value]
        /\ UNCHANGED <<now, forwardUM, cache, log, progress, applied>>

SpecOverride == InitOverride /\ [][ApplyOverride]_vars

-----------------------------------------------------------------------------
(* The tool configuration and the process environment.  get_tool_configs    *)
(* builds the registry anew at every call, reading each setting with        *)
(* os.getenv at that moment.  A setting is an environment variable that is  *)
(* unset, set to the empty string, or set to a non-empty string.            *)

ConfigVars == {"CODECHECK_KEY", "CODECHECK_SECRET", "CODECHECK_LAUNCH", "PAWS_LTI_URL"}

EnvValues == {"unset", "empty", "set"}

\* os.getenv(name, default) is a non-empty string
getenv(env, name, has_default) ==
    env[name] = "set" \/ (env[name] = "unset" /\ has_default)

\* get_tool_configs: the entries of codecheck and paws_ctat, each setting
\* given by whether it is non-empty
get_tool_configs(env) ==
    (codecheck :> [consumer_key |-> getenv(env, "CODECHECK_KEY", FALSE),
                   consumer_secret |-> getenv(env, "CODECHECK_SECRET", FALSE),
                   launch_url |-> getenv(env, "CODECHECK_LAUNCH", TRUE),
                   is_paws_proxy |-> FALSE])
    @@ (paws_ctat :> [consumer_key |-> FALSE, consumer_secret |-> FALSE,
                      launch_url |-> getenv(env, "PAWS_LTI_URL", TRUE),
                      is_paws_proxy |-> TRUE])

\* get_tool_config
get_tool_config(env, tool) ==
    IF tool \in DOMAIN get_tool_configs(env) THEN Some(get_tool_configs(env)[tool])
    ELSE None

\* list_configured_tools
list_configured_tools(env) ==
    {name \in DOMAIN get_tool_configs(env) : ConfiguredIn(get_tool_configs(env), name)}

ConfigTools == {codecheck, paws_ctat, unknown_tool}

MaxEnvChanges == 1

InitConfig ==
    /\ now = 0
    /\ forwardUM = FALSE
    /\ cache = NoRows
    /\ log = <<>>
    /\ progress = None
    /\ applied = <<>>
    /\ last = [op |-> "start"]
    /\ inflight \in {[env |-> e, start |-> e, changes |-> 0, pc |-> "start",
                      tool |-> t, read1 |-> None]
                     : e \in [ConfigVars -> EnvValues], t \in ConfigTools}

\* os.environ changes in the running process
SetEnv(name, value) ==
    /\ inflight.changes < MaxEnvChanges
    /\ inflight.env[name] # value
    /\ inflight' = [inflight EXCEPT !.env[name] = value, !.changes = @ + 1]
    /\ UNCHANGED <<now, forwardUM, cache, log, progress, applied, last>>

\* is_tool_configured, get_tool_config and list_configured_tools called
\* one after the other
QueryConfig ==
    /\ last' = [op |-> "config", env |-> inflight.env,
                configured |-> [t \in ConfigTools |->
                                   ConfiguredIn(get_tool_configs(inflight.env), t)],
                config |-> [t \in ConfigTools |-> get_tool_config(inflight.env, t)],
                listed |-> list_configured_tools(inflight.env)]
    /\ UNCHANGED <<now, forwardUM, cache, log, progress, applied, inflight>>

\* the response of a launch that ends on a configuration error: the
\* settings its message names, or generic for a message that names none
ConfigError(named, generic, read1, read2) ==
    [op |-> "config_launch", tool |-> inflight.tool, status |-> 400,
     named |-> named, generic |-> generic,
     read1 |-> read1, read2 |-> read2,
     start |-> get_tool_configs(inflight.start)]

\* launch, "Verify tool is configured": the first read of the configuration
LaunchVerify ==
    \E configs \in {get_tool_configs(inflight.env)} :
        /\ inflight.pc = "start"
        /\ IF ConfiguredIn(configs, inflight.tool)
           THEN /\ inflight' = [inflight EXCEPT !.pc = "verified",
                                                !.read1 = Some(configs)]
                /\ UNCHANGED last
           ELSE /\ inflight' = [inflight EXCEPT !.pc = "done", !.read1 = Some(configs)]
                /\ last' = ConfigError({"KEY", "SECRET", "LAUNCH"}, FALSE,
                                       Some(configs), None)
        /\ UNCHANGED <<now, forwardUM, cache, log, progress, applied>>

\* build_signed_lti_params: the second read of the configuration and the
\* checks made on it
LaunchBuild ==
    \E configs \in {get_tool_configs(inflight.env)} :
        /\ inflight.pc = "verified"
        /\ inflight' = [inflight EXCEPT !.pc = "done"]
        /\ last' =
             IF ~configs[inflight.tool].is_paws_proxy
                /\ ~(configs[inflight.tool].consumer_key
                      /\ configs[inflight.tool].consumer_secret)
             THEN ConfigError({}, TRUE, inflight.read1, Some(configs))
             ELSE IF ~configs[inflight.tool].launch_url
             THEN ConfigError({"LAUNCH"}, FALSE, inflight.read1, Some(configs))
             ELSE [ConfigError({}, FALSE, inflight.read1, Some(configs))
                      EXCEPT !.status = 200]
        /\ UNCHANGED <<now, forwardUM, cache, log, progress, applied>>

NextConfig ==
    \/ \E name \in ConfigVars, value \in EnvValues : SetEnv(name, value)
    \/ QueryConfig
    \/ LaunchVerify
    \/ LaunchBuild

SpecConfig == InitConfig /\ [][NextConfig]_vars

-----------------------------------------------------------------------------
(* The launch of a PAWS-mediated tool: build_paws_launch_params and the     *)
(* redirect of launch.                                                      *)

\* get_tool_configs: 'paws_tool' of paws_ctat
PawsTool == <<"c", "t", "a", "t">>

\* _get_outcome_service_url: the absolute URL of the outcome endpoint
OutcomeServiceUrl == <<"https://modulearn/lti/outcome/">>

\* the dict items whose value is not empty, in order
RECURSIVE NonEmptyItems(_)
NonEmptyItems(pairs) ==
    IF pairs = <<>> THEN <<>>
    ELSE (IF Head(pairs)[2] # <<>> THEN <<Head(pairs)>> ELSE <<>>)
            \o NonEmptyItems(Tail(pairs))

\* build_paws_launch_params: the items of params, in order
PawsParams(sub, usr, grp, cid, sid, svc, outcome_service_url) ==
    << <<<<"tool">>, PawsTool>>, <<<<"sub">>, sub>>,
       <<<<"usr">>, usr>>, <<<<"grp">>, grp>> >>
    \o NonEmptyItems(<< <<<<"cid">>, cid>>, <<<<"sid">>, sid>>,
                        <<<<"svc">>, IF outcome_service_url # <<>>
                                     THEN outcome_service_url ELSE svc>> >>)

\* build_paws_launch_params: the launch URL, as its base and its query
build_paws_launch_params(base_url, sub, usr, grp, cid, sid, svc, outcome_service_url) ==
    [base |-> base_url,
     query |-> UrlEncode(PawsParams(sub, usr, grp, cid, sid, svc, outcome_service_url))]

\* the requests for paws_ctat, with the optional parameters given or not
PawsRequests ==
    {[sub |-> sub, usr |-> usr, grp |-> BaseLaunch.grp,
      cid |-> cid, sid |-> sid, svc |-> svc]
     : sub \in {<<"e">>, <<"e", "2">>}, usr \in {<<"1">>, <<"2">>},
       cid \in {<<>>, <<"c">>}, sid \in {<<>>, <<"s">>},
       svc \in {<<>>, <<"v">>}}

\* PAWS_LTI_URL: its default, and an https address
PawsBaseUrls == {[scheme |-> "http", rest |-> <<"adapt2.sis.pitt.edu/lti/launch">>],
                 [scheme |-> "https", rest |-> <<"paws.example/lti/launch">>]}

InitPaws ==
    /\ now = 0
    /\ forwardUM = FALSE
    /\ cache = NoRows
    /\ log = <<>>
    /\ progress = None
    /\ applied = <<>>
    /\ last = [op |-> "start"]
    /\ inflight \in {[pc |-> "start", req |-> r, base_url |-> b, secure |-> sec]
                     : r \in PawsRequests, b \in PawsBaseUrls, sec \in BOOLEAN}

\* launch for a PAWS-mediated tool, from build_signed_lti_params to the
\* redirect
PawsLaunch ==
    \E u \in {build_paws_launch_params(inflight.base_url, inflight.req.sub,
                    inflight.req.usr, inflight.req.grp, inflight.req.cid,
                    inflight.req.sid, inflight.req.svc, OutcomeServiceUrl)} :
        /\ inflight.pc = "start"
        /\ inflight' = [inflight EXCEPT !.pc = "done"]
        /\ last' = [op |-> "paws_launch", req |-> inflight.req,
                    base_url |-> inflight.base_url,
                    status |-> 302,
                    location |->
                        IF u.base.scheme = "http" /\ inflight.secure
                        THEN [prefix |-> <<"/proxy/http/">>, rest |-> u.base.rest]
                        ELSE [prefix |-> <<u.base.scheme, "://">>, rest |-> u.base.rest],
                    query |-> u.query]
        /\ UNCHANGED <<now, forwardUM, cache, log, progress, applied>>

SpecPaws == InitPaws /\ [][PawsLaunch]_vars

-----------------------------------------------------------------------------
(* build_um_url: the UM request of an outcome, with the tool's hooks.       *)

dbqa == <<"d", "b", "q", "a">>

LtiSuffix == <<"-", "l", "t", "i">>

\* get_tool_configs: app_id, act and the names of the outcome hooks
UMConfigs ==
    (codecheck :> [app_id |-> <<"5", "6">>, act |-> codecheck,
                   outcome_score_processor |-> "", outcome_act_modifier |-> ""])
    @@ (ctat :> [app_id |-> <<"5", "0">>, act |-> ctat,
                 outcome_score_processor |-> "ctat_score_processor",
                 outcome_act_modifier |-> ""])
    @@ (dbqa :> [app_id |-> <<"5", "3">>, act |-> dbqa,
                 outcome_score_processor |-> "dbqa_score_processor",
                 outcome_act_modifier |-> "dbqa_act_modifier"])

CtatScoreProcessorCountsZero(score, sub) ==
    LET p == ParseFloat(score)
    IN  <<IF p.ok /\ Ge(p.f, F(0)) THEN <<"1">> ELSE <<"0">>, sub>>

\* ctat_score_processor: '1' for a score above 0, '0' otherwise and when
\* float raises
ctat_score_processor(score, sub) ==
    LET p == ParseFloat(score)
    IN  <<IF p.ok /\ Gt(p.f, F(0)) THEN <<"1">> ELSE <<"0">>, sub>>

\* dbqa_score_processor
dbqa_score_processor(score, sub) == <<score, sub \o LtiSuffix>>

\* dbqa_act_modifier
dbqa_act_modifier(act) == act \o LtiSuffix

\* build_um_url: the query string of the URL
build_um_url(tool_name, score, usr, grp, sub, sid, svc, cid) ==
    LET tool_config == UMConfigs[tool_name]
        result == IF tool_config.outcome_score_processor = "ctat_score_processor"
                  THEN ctat_score_processor(score, sub)
                  ELSE IF tool_config.outcome_score_processor = "dbqa_score_processor"
                  THEN dbqa_score_processor(score, sub)
                  ELSE <<score, sub>>
        act == IF tool_config.outcome_act_modifier = "dbqa_act_modifier"
               THEN dbqa_act_modifier(tool_config.act)
               ELSE tool_config.act
    IN  UrlEncode(NonEmptyItems(
            << <<<<"app">>, tool_config.app_id>>,
               <<<<"act">>, act>>,
               <<<<"sub">>, result[2]>>,
               <<<<"res">>, result[1]>>,
               <<<<"usr">>, usr>>,
               <<<<"grp">>, grp>>,
               <<<<"sid">>, sid>>,
               <<<<"svc">>, svc>>,
               <<<<"cid">>, cid>> >>))

\* the outcomes forwarded: the tool and context of the launch, the raw score
UMInputs ==
    {[tool |-> t, score |-> sc, usr |-> BaseLaunch.usr, grp |-> BaseLaunch.grp,
      sub |-> BaseLaunch.sub, sid |-> sid, svc |-> svc, cid |-> cid]
     : t \in DOMAIN UMConfigs, sc \in ScoreInputs,
       sid \in {<<>>, <<"s">>}, svc \in {<<>>, <<"v">>}, cid \in {<<>>, <<"c">>}}

InitUM ==
    /\ now = 0
    /\ forwardUM = TRUE
    /\ cache = NoRows
    /\ log = <<>>
    /\ progress = None
    /\ applied = <<>>
    /\ last = [op |-> "start"]
    /\ inflight \in {[pc |-> "start", in |-> i] : i \in UMInputs}

\* outcome, "STEP 2": the call of build_um_url
BuildUM ==
    \E q \in {build_um_url(inflight.in.tool, inflight.in.score, inflight.in.usr,
                            inflight.in.grp, inflight.in.sub, inflight.in.sid,
                            inflight.in.svc, inflight.in.cid)} :
        /\ inflight.pc = "start"
        /\ inflight' = [inflight EXCEPT !.pc = "done"]
        /\ last' = [op |-> "um_url", in |-> inflight.in, query |-> q]
        /\ UNCHANGED <<now, forwardUM, cache, log, progress, applied>>

SpecUM == InitUM /\ [][BuildUM]_vars

-----------------------------------------------------------------------------
(* An outcome handler and the UM service it forwards to.  The service may   *)
(* answer or stay silent; the handler is in flight from the cache lookup to *)
(* its response.  inflight is empty, or holds the handler in flight: its    *)
(* request, the context it found, and what it goes on to do for each way    *)
(* its wait can end.  No other request is handled in between.               *)

TimeoutNotSet == FALSE

\* outcome, "STEP 2": requests.get(um_url, timeout=10) gives up on a service
\* that stays silent
TimeoutSet == TRUE

\* what ends the handler's wait: an answer, the timer, or nothing to wait for
WaitReplies == {[kind |-> "status", code |-> 200], [kind |-> "status", code |-> 500],
                [kind |-> "timeout", code |-> 0], [kind |-> "none", code |-> 0]}

\* outcome up to "STEP 0": the parse and get_valid_cache
WaitReceive(body) ==
    \E found \in {get_valid_cache(cache, parse_outcome_xml(body).source_id, now)} :
        /\ inflight = <<>>
        /\ Len(log) < MaxLog
        /\ Len(applied) < MaxApplied
        /\ cache' = found.rows
        /\ inflight' = <<[body |-> body, row |-> found.row,
                          steps |-> [um \in WaitReplies |->
                                        OutcomeStepsWith(body, um, "none", found)]]>>
        /\ UNCHANGED <<now, forwardUM, log, progress, applied, last>>

\* outcome from "if not cache_entry" to the response; um is what requests.get
\* met, "none" when the handler does not call it
WaitEnd(um) ==
    /\ inflight # <<>>
    /\ (um.kind = "none") = ~(inflight[1].row # None /\ forwardUM)
    /\ um.kind = "timeout" => TimeoutSet
    /\ OutcomeFinish(inflight[1].steps[um], inflight[1].body, um, "none")
    /\ inflight' = <<>>

NextWait ==
    \/ cache = NoRows /\ log = <<>> /\ Launch(WithModule(BaseLaunch, <<"5">>), FALSE)
    \/ \E body \in SystemOutcomeBodies : WaitReceive(body)
    \/ \E um \in WaitReplies : WaitEnd(um)
    \/ inflight = <<>> /\ Tick

\* the worker runs the handler, and the timer of requests.get fires; the UM
\* service owes no answer
SpecWait ==
    /\ Init /\ [][NextWait]_vars
    /\ WF_vars(WaitEnd([kind |-> "timeout", code |-> 0]))
    /\ WF_vars(WaitEnd([kind |-> "none", code |-> 0]))

-----------------------------------------------------------------------------
(* Outcomes for the progress record of a student and of an instructor of    *)
(* the course instance, one after the other.                                *)

\* ModuleProgress.get_or_create_progress: the row it creates
get_or_create_progress(is_instructor) ==
    IF is_instructor
    THEN [FreshProgress EXCEPT !.progress = F(One), !.is_complete = TRUE]
    ELSE FreshProgress

InitComplete ==
    /\ now = 0
    /\ forwardUM = FALSE
    /\ cache = NoRows
    /\ log = <<>>
    /\ progress = None
    /\ applied = <<>>
    /\ last = [op |-> "start"]
    /\ inflight \in {[is_instructor |-> i] : i \in BOOLEAN}

\* _update_module_progress for user 1, module 5 and course instance 7
CompleteOutcome(score) ==
    \E found \in {IF progress = None
                   THEN Some(get_or_create_progress(inflight.is_instructor))
                   ELSE progress} :
      \E upd \in {update_module_progress(found, Some(1), Some(5), Some(7), score,
                                         FALSE)} :
        /\ Len(applied) < MaxApplied + 1
        /\ progress' = upd.rows
        /\ applied' = Append(applied, score)
        /\ last' = [op |-> "progress", score |-> score, before |-> found[1],
                    updated |-> upd.updated]
        /\ UNCHANGED <<now, forwardUM, cache, log, inflight>>

SpecComplete ==
    InitComplete /\ [][\E score \in MergeScores : CompleteOutcome(score)]_vars

-----------------------------------------------------------------------------
(* The score of an outcome on its two ways: through parse_outcome_xml and   *)
(* build_um_url into the UM request, and through the clamp into the merge.  *)

\* textString as the tool sent it, and the optional fields of its launch;
\* the tool has no outcome_score_processor
ForwardInputs ==
    {[tool |-> codecheck, text |-> t, sid |-> sid, svc |-> svc, cid |-> cid]
     : t \in ScoreInputs \cup {<<" ">>, <<" ", "0", ".", "5">>, <<"1", ".", "5", " ">>},
       sid \in {<<>>, <<"s">>}, svc \in {<<>>, <<"v">>}, cid \in {<<>>, <<"c">>}}

InitForward ==
    /\ now = 0
    /\ forwardUM = TRUE
    /\ cache = NoRows
    /\ log = <<>>
    /\ progress = None
    /\ applied = <<>>
    /\ last = [op |-> "start"]
    /\ inflight \in {[pc |-> "start", in |-> i] : i \in ForwardInputs}

\* outcome: the parse, the clamp and the call of build_um_url
ForwardOutcome ==
    \E parsed \in {parse_outcome_xml(
                      [wellformed |-> TRUE,
                       elems |-> <<Elem("sourcedId", TRUE, LaunchedId),
                                   Elem("textString", TRUE, inflight.in.text)>>])} :
        /\ inflight.pc = "start"
        /\ parsed.ok
        /\ inflight' = [inflight EXCEPT !.pc = "done"]
        /\ last' = [op |-> "forward", in |-> inflight.in,
                    score_float |-> NormalizeScore(parsed.score).score_float,
                    query |-> build_um_url(inflight.in.tool, parsed.score,
                                           BaseLaunch.usr, BaseLaunch.grp,
                                           BaseLaunch.sub, inflight.in.sid,
                                           inflight.in.svc, inflight.in.cid)]
        /\ UNCHANGED <<now, forwardUM, cache, log, progress, applied>>

SpecForward == InitForward /\ [][ForwardOutcome]_vars

-----------------------------------------------------------------------------
(* An outcome handler in get_valid_cache while the learner launches the     *)
(* activity again.  objects.get loads the row into the handler's object;    *)
(* is_expired looks at that object; obj.delete() deletes the row with the   *)
(* object's primary key, which update_or_create keeps when it refreshes the *)
(* row.                                                                     *)

InitStale ==
    /\ now = 0
    /\ forwardUM \in BOOLEAN
    /\ cache = NoRows
    /\ log = <<>>
    /\ progress = None
    /\ applied = <<>>
    /\ last = [op |-> "start"]
    /\ inflight = [pc |-> "idle", body |-> None, read |-> None,
                   expired |-> FALSE, refreshed |-> None, deleted |-> None]

\* launch of the activity; refreshed is the expiry this launch sets
StaleLaunch ==
    /\ LaunchHandled(WithModule(BaseLaunch, <<"5">>), FALSE)
    /\ inflight' = [inflight EXCEPT !.refreshed = Some(now + LTI_CACHE_TTL_HOURS)]

\* get_valid_cache: obj = cls.objects.get(source_id=source_id) and
\* obj.is_expired(), which compares the loaded expires_at with the clock
StaleRead(body) ==
    /\ inflight.pc = "idle"
    /\ Len(log) < MaxLog
    /\ inflight' = [inflight EXCEPT
            !.pc = "read", !.body = Some(body),
            !.read = IF LaunchedId \in DOMAIN cache
                     THEN Some(cache[LaunchedId]) ELSE None,
            !.expired = LaunchedId \in DOMAIN cache
                           /\ is_expired(cache[LaunchedId], now)]
    /\ UNCHANGED <<now, forwardUM, cache, log, progress, applied, last>>

\* get_valid_cache from obj.delete() on: the row the object names is
\* deleted whatever it holds by now
StaleLookup(rows, obj, expired) ==
    IF obj = None THEN [row |-> None, rows |-> rows]
    ELSE IF expired
    THEN [row |-> None, rows |-> [k \in DOMAIN rows \ {LaunchedId} |-> rows[k]]]
    ELSE [row |-> obj, rows |-> rows]

\* the rest of get_valid_cache and of the outcome; deleted is the row the
\* lookup removed, if it removed one
StaleFinish ==
    /\ inflight.pc = "read"
    /\ \E found \in {StaleLookup(cache, inflight.read, inflight.expired)} :
      \E r \in {OutcomeStepsWith(inflight.body[1], [kind |-> "status", code |-> 200],
                                 "none", found)} :
        /\ OutcomeFinish(r, inflight.body[1], [kind |-> "status", code |-> 200],
                         "none")
        /\ inflight' = [inflight EXCEPT
                !.pc = "idle", !.body = None, !.read = None, !.expired = FALSE,
                !.deleted = IF LaunchedId \in DOMAIN cache
                                 /\ LaunchedId \notin DOMAIN found.rows
                            THEN Some(cache[LaunchedId]) ELSE None]

\* the clock counts hours: none passes inside one get_valid_cache
NextStale ==
    \/ StaleLaunch
    \/ \E body \in SystemOutcomeBodies :
            parse_outcome_xml(body).source_id = LaunchedId /\ StaleRead(body)
    \/ StaleFinish
    \/ inflight.pc = "idle" /\ Tick

SpecStale == InitStale /\ [][NextStale]_vars

-----------------------------------------------------------------------------
(* Launches whose usr, grp and sub differ and join to the same source_id,   *)
(* followed by outcomes.  inflight is the list of the launches handled.     *)

CollidingRequests ==
    {WithModule([BaseLaunch EXCEPT !.usr = <<"1", "_", "2">>, !.grp = <<"3">>], <<"5">>),
     WithModule([BaseLaunch EXCEPT !.usr = <<"1">>, !.grp = <<"2", "_", "3">>], <<"5">>),
     WithModule([BaseLaunch EXCEPT !.usr = <<"1", "_", "7">>], <<"5">>),
     WithModule([BaseLaunch EXCEPT !.sub = <<"7", "_", "e">>], <<"5">>)}

CollidingBodies ==
    {[wellformed |-> TRUE,
      elems |-> <<Elem("sourcedId", TRUE, id), Elem("textString", TRUE, sc)>>]
     : id \in {<<"1", "_", "2", "_", "3", "_", "e">>,
               <<"1", "_", "7", "_", "7", "_", "e">>},
       sc \in {<<"0", ".", "5">>}}

MaxLaunches == 2

\* a launch, before the first outcome arrives
CollideLaunch(req) ==
    /\ Len(inflight) < MaxLaunches
    /\ log = <<>>
    /\ LaunchHandled(req, FALSE)
    /\ inflight' = Append(inflight, req)

NextCollide ==
    \/ \E req \in CollidingRequests : CollideLaunch(req)
    \/ \E body \in CollidingBodies :
            OutcomePost(body, [kind |-> "status", code |-> 200], "none")
    \/ Tick

SpecCollide == Init /\ [][NextCollide]_vars

\* launches whose sub, usr and grp are short or as long as validation allows
NextLong ==
    \/ \E sub \in {<<"e">>, Rep("a", MaxSubLen)},
          usr \in {<<"1">>, Rep("u", MaxUsrLen)},
          grp \in {<<"7">>, Rep("g", MaxGrpLen)} :
            CollideLaunch([BaseLaunch EXCEPT !.sub = sub, !.usr = usr, !.grp = grp])
    \/ Tick

SpecLong == Init /\ [][NextLong]_vars

-----------------------------------------------------------------------------
(* Properties *)

IsPost == last.op = "outcome" /\ last.method = "POST"

IsLaunch == last.op = "launch"

\* the log row written by the request handled last, if it wrote one
Logged == IsPost /\ Len(log) = last.logBefore + 1

LastRow == log[Len(log)]

\* the UM service answered the forwarded score with 200
Accepted ==
    last.um_requested /\ last.um_reply.kind = "status" /\ last.um_reply.code = 200

(* C1, as stated: every POST to the outcome endpoint adds exactly one       *)
(* OutcomeLog row, also when the log write fails.                           *)
C1_ExactlyOneEntryAlways == IsPost => Len(log) = last.logBefore + 1

(* C1, amended: every POST adds exactly one OutcomeLog row, whatever the    *)
(* body, the lookup, the progress update and the UM reply are and also when *)
(* the first log write or the cache lookup raises; it adds none when every  *)
(* write of the row raises, and it never adds two.                          *)
C1_OneEntryUnlessEveryWriteFails ==
    IsPost => Len(log) = last.logBefore + (IF last.saveRaised = "all" THEN 0 ELSE 1)

C1_Witness ==
    /\ IsPost /\ last.saveRaised = "first" /\ last.lookup = "hit"
    /\ Len(log) = last.logBefore + 1

\* a fault of the request handled last, in any of the five places
ParseFault == IsPost /\ ~parse_outcome_xml(last.body).ok
UMFault == IsPost /\ last.um_requested /\ last.um_reply.kind # "status"
AnyFault ==
    \/ ParseFault
    \/ last.lookup = "raised"
    \/ last.progress_raised
    \/ UMFault
    \/ last.saveRaised # "no"

(* C2, as stated: every POST is answered with 200 and a POX response, and   *)
(* a fault in parsing, cache lookup, progress update, UM forwarding or log  *)
(* writing makes it a failure response; another method gets 405.            *)
C2_EveryFaultIsAFailure ==
    /\ last.op = "outcome" /\ last.method # "POST" => last.status = 405
    /\ IsPost => /\ last.status = 200
                 /\ last.codeMajor \in {"success", "failure"}
                 /\ AnyFault => last.codeMajor = "failure"

(* C2, amended: every POST is answered with 200 and a POX response whose    *)
(* imsx_codeMajor is success or failure, and another method with 405.  A    *)
(* fault in parsing, cache lookup or log writing makes it a failure; a      *)
(* fault in the progress update or in the UM forward makes it a failure     *)
(* unless the other of the two succeeded or forwarding is disabled.         *)
C2_AlwaysAnsweredInBand ==
    /\ last.op = "outcome" /\ last.method # "POST" => last.status = 405
    /\ IsPost =>
        /\ last.status = 200
        /\ last.codeMajor \in {"success", "failure"}
        /\ ParseFault \/ last.lookup = "raised" \/ last.saveRaised # "no"
              => last.codeMajor = "failure"
        /\ last.progress_raised /\ forwardUM /\ ~Accepted
              => last.codeMajor = "failure"
        /\ UMFault /\ ~last.progress_updated => last.codeMajor = "failure"

C2_Witness ==
    /\ IsPost /\ last.lookup = "raised"
    /\ last.status = 200 /\ last.codeMajor = "failure"

MaxF(a, b) == IF Gt(a, b) THEN a ELSE b

(* C3: two different normalized scores delivered one after the other to a   *)
(* progress record leave the stored score at 100 times the greater one, in  *)
(* either order.                                                            *)
C3_MonotonicMerge ==
    Len(applied) = 2 /\ applied[1] # applied[2]
        => progress[1].score = Some(Times100(MaxF(applied[1], applied[2])))

LaunchActionReturned == IsLaunch /\ last.status \in {200, 302}

C5_ValidExactlyBeforeExpiry ==
    \A sid \in DOMAIN cache :
        get_valid_cache(cache, sid, now).row # None <=> now < cache[sid].expires_at

HitHandled == IsPost /\ last.lookup = "hit" /\ ~last.outer

HasElem(body, tag) == \E i \in 1..Len(body.elems) : body.elems[i].tag = tag

BodyLacks(body) ==
    ~body.wellformed \/ ~HasElem(body, "sourcedId") \/ ~HasElem(body, "textString")

(* C8: an outcome body that is not well-formed XML, or has no sourcedId or  *)
(* no textString element, is answered with a failure that names the         *)
(* problem, causes no cache lookup, no progress update and no UM request,   *)
(* and is logged with empty tool, empty source_id and an error message.     *)
(* The description and the presence of the row are those of a request in    *)
(* which the log write does not raise.                                      *)
C8_MalformedBodyIsLoggedFailure ==
    IsPost /\ BodyLacks(last.body) =>
        /\ last.codeMajor = "failure"
        /\ last.lookup = "none" /\ ~last.cacheChanged
        /\ ~last.progress_called /\ ~last.progressChanged
        /\ ~last.um_requested
        /\ Logged => /\ LastRow.tool = <<>> /\ LastRow.source_id = <<>>
                     /\ LastRow.error_message # ""
        /\ ~last.outer =>
            /\ Logged
            /\ last.description =
                 IF ~last.body.wellformed THEN "XML parse error: Invalid XML"
                 ELSE IF ~HasElem(last.body, "sourcedId")
                 THEN "XML parse error: Missing sourcedId in outcome XML"
                 ELSE "XML parse error: Missing textString (score) in outcome XML"

C8_Witness ==
    /\ IsPost /\ last.body.wellformed /\ HasElem(last.body, "sourcedId")
    /\ ~HasElem(last.body, "textString")
    /\ last.description = "XML parse error: Missing textString (score) in outcome XML"
    /\ Logged /\ LastRow.source_id = <<>>

MaxLen(p) ==
    CASE p = "tool" -> MaxToolLen [] p = "sub" -> MaxSubLen
      [] p = "usr" -> MaxUsrLen [] p = "grp" -> MaxGrpLen

RequiredSet == {"tool", "sub", "usr", "grp"}

\* a required parameter is missing, longer than its bound, or has a
\* character outside the allow-list: of the value as submitted
SubmittedBad(req) ==
    \E p \in RequiredSet :
        \/ Get(req, p) = <<>>
        \/ Len(Get(req, p)) > MaxLen(p)
        \/ \E i \in 1..Len(Get(req, p)) : Get(req, p)[i] \notin SafeChars

\* the same of the value with its surrounding whitespace removed
StrippedBad(req) ==
    \E p \in RequiredSet :
        \/ Strip(Get(req, p)) = <<>>
        \/ Len(Strip(Get(req, p))) > MaxLen(p)
        \/ \E i \in 1..Len(Strip(Get(req, p))) : Strip(Get(req, p))[i] \notin SafeChars

RejectedBeforeAnyWork ==
    /\ last.status = 400
    /\ ~last.consulted /\ ~last.signed
    /\ ~last.cacheWrite /\ ~last.cacheChanged

NotConfigured(tool) ==
    \/ tool \notin DOMAIN ToolConfigs
    \/ ~ToolConfigs[tool].launch_url
    \/ /\ ~ToolConfigs[tool].is_paws_proxy
       /\ ~(ToolConfigs[tool].consumer_key /\ ToolConfigs[tool].consumer_secret)

InUnit(f) == Ge(f, F(0)) /\ Ge(F(One), f)

ScoreOf(body) == parse_outcome_xml(body).score

(* C12: for every raw score that float() accepts, the normalized score used *)
(* for the progress merge and the one stored in the log entry lie in [0,1]; *)
(* for every other raw score the normalized score used is 0.0; in both      *)
(* cases the outcome is handled to the end and logged.                      *)
C12_NormalizedScoreInUnitInterval ==
    IsPost /\ ~ParseFault /\ ~last.outer =>
        /\ Logged
        /\ LastRow.score_raw = ScoreOf(last.body)
        /\ last.lookup = "hit" => InUnit(last.score)
        /\ LastRow.score_normalized # None => InUnit(LastRow.score_normalized[1])
        /\ ParseFloat(ScoreOf(last.body)).ok => LastRow.score_normalized # None
        /\ ~ParseFloat(ScoreOf(last.body)).ok /\ last.lookup = "hit"
              => last.score = F(0)

\* the progress record the request handled last found: the stored one, or
\* the one get_or_create_progress creates
Before ==
    IF last.progressBefore = None THEN FreshProgress ELSE last.progressBefore[1]

\* the request handled last hit a context with a user id and a module id and
\* handed a score of [0,1] to a progress update that did not raise
MergeCase ==
    /\ HitHandled /\ last.progress_called /\ ~last.progress_raised
    /\ InUnit(last.score)

Applied(rec, s) ==
    [score |-> Some(Times100(s)), progress |-> s,
     is_complete |-> Ge(s, F(One)), success |-> Ge(s, F((7 * One) \div 10)),
     attempts |-> rec.attempts + 1]

(* C13: when an outcome with normalized score s hits a context with a user  *)
(* id and a module id and the progress record has no stored score or one    *)
(* below 100*s, the record becomes score 100*s, progress s, is_complete     *)
(* (s >= 1.0), success (s >= 0.7), attempts one more, and the response is   *)
(* success.                                                                 *)
C13_HigherScoreIsApplied ==
    MergeCase /\ (Before.score = None \/ Lt(Before.score[1], Times100(last.score)))
        => /\ progress = Some(Applied(Before, last.score))
           /\ last.codeMajor = "success"

(* C14: an outcome whose normalized score, as a percentage, is not above    *)
(* the stored score leaves every field of the progress record unchanged,    *)
(* attempts included; so does the second of two deliveries of the same      *)
(* score.                                                                   *)
C14_NotHigherLeavesRecordUnchanged ==
    /\ HitHandled /\ last.progress_called
          /\ last.progressBefore # None /\ Before.score # None
          /\ ~Gt(Times100(last.score), Before.score[1])
       => progress = last.progressBefore /\ ~last.progress_updated
    /\ HitHandled /\ last.merged /\ Len(applied) >= 2
          /\ applied[Len(applied)] = applied[Len(applied) - 1]
       => progress = last.progressBefore /\ ~last.progress_updated

C14_Witness ==
    /\ HitHandled /\ last.merged /\ Len(applied) = 2 /\ applied[1] = applied[2]
    /\ progress # None /\ progress[1].attempts = 1
    /\ progress[1].score = Some(Times100(applied[2]))

MergesDone == DOMAIN inflight = Handlers /\ \A h \in Handlers : inflight[h].pc = "done"

\* both handlers read the row before either wrote it
BothReadFirst == \A h \in Handlers : inflight[h].rec.score = None

UpdatedCount == Cardinality({h \in Handlers : inflight[h].updated})

(* C15: when two outcome handlers for one progress record run concurrently  *)
(* and both read the stored score before either writes, the record ends     *)
(* with the greater of the two scores and attempts counts every applied     *)
(* update.                                                                  *)
C15_RacingMergesKeepGreater ==
    MergesDone /\ BothReadFirst =>
        /\ progress[1].score =
              Some(Times100(MaxF(inflight[1].score, inflight[2].score)))
        /\ progress[1].attempts = UpdatedCount

LaunchesDone ==
    DOMAIN inflight = Handlers /\ \A h \in Handlers : inflight[h].pc = "done"

(* C16: after any interleaving of two concurrent launches that derive the   *)
(* same source_id, LaunchCache holds one row for it, the row is, field by   *)
(* field, the one of the launch that wrote last, and both launches have     *)
(* returned their launch action.                                            *)
C16_RacingLaunchesLeaveOneWholeRow ==
    LaunchesDone =>
        /\ last.op = "cache_write"
        /\ DOMAIN cache = {LaunchedId}
        /\ cache[LaunchedId] = inflight[last.by].row
        /\ \A h \in Handlers : inflight[h].status \in {200, 302}

C16_Witness ==
    /\ LaunchesDone /\ last.op = "cache_write"
    /\ \A h \in Handlers : ~inflight[h].raised
    /\ inflight[1].row # inflight[2].row
    /\ cache[LaunchedId] = inflight[1].row

(* C17: a re-launch with the same source_id at time t' keeps a single row,  *)
(* sets its expiry to t' + TTL, overwrites the fields it supplies, and      *)
(* leaves a module_id it does not supply as the earlier launch stored it.   *)
C17_RelaunchKeepsUnsuppliedFields ==
    LaunchActionReturned /\ ~last.writeRaised /\ last.rowBefore # None =>
        /\ last.source_id \in DOMAIN cache
        /\ cache[last.source_id].expires_at = last.at + LTI_CACHE_TTL_HOURS
        /\ cache[last.source_id].tool = last.tool
        /\ cache[last.source_id].module_id =
              IF "module_id" \in DOMAIN last.req
              THEN IntOrNone(last.req.module_id)
              ELSE last.rowBefore[1].module_id

(* C18: on a cache hit with forwarding enabled the UM service gets exactly  *)
(* one GET per outcome, whether the progress update was applied, skipped or *)
(* failed with an error, and a UM forward that fails leaves an applied      *)
(* progress update in place.                                                *)
C18_OneForwardWhateverProgressDid ==
    IsPost /\ last.lookup = "hit" /\ forwardUM =>
        /\ last.um_gets = 1
        /\ last.progress_updated /\ ~Accepted
              => progress = Some(Applied(Before, last.score))

C18_Witness ==
    /\ IsPost /\ last.lookup = "hit" /\ forwardUM
    /\ last.progress_raised /\ last.um_gets = 1 /\ last.um_reply.kind = "timeout"

(* C19: the UM forward counts as accepted if and only if the UM service     *)
(* answers with a status in 200..299; a timeout or any other status counts  *)
(* as not accepted.                                                         *)
C19_AcceptedIffStatus2xx ==
    IsPost /\ last.lookup = "hit" /\ forwardUM =>
        (last.um_success <=>
            last.um_reply.kind = "status" /\ last.um_reply.code \in 200..299)

(* C20: when the cache lookup hits and only the UM forward goes wrong, the  *)
(* outcome is reported as success and the upstream error is recorded in the *)
(* log row, also for a score that is already stored.                        *)
C20_UpstreamFailureAloneIsSuccess ==
    HitHandled /\ last.merged /\ forwardUM /\ ~last.um_success =>
        /\ last.codeMajor = "success"
        /\ Logged /\ LastRow.success /\ LastRow.error_message # ""

(* C21, as stated: with the reaper running beside the outcome handler, the  *)
(* handler never answers with an internal error, and a context that was     *)
(* deleted between the handler's validity check and its use of the entry is *)
(* handled as a cache miss: a failure response, no progress update and no   *)
(* request to the UM service.                                               *)
C21_DeletedContextIsAMiss ==
    (IsPost /\ inflight.pc = "done")
        => /\ ~last.outer
           /\ (inflight.row # None /\ inflight.gone)
                => /\ last.codeMajor = "failure"
                   /\ ~last.progress_called
                   /\ ~last.um_requested

\* the rows of a cache whose expires_at is earlier than t
ExpiredAt(rows, t) == {k \in DOMAIN rows : rows[k].expires_at < t}

(* C22: a cleanup run removes exactly the rows whose expires_at is earlier  *)
(* than now, leaves every other row as it was, and reports the number it    *)
(* removed; a run right after a run at the same instant removes nothing and *)
(* reports 0; a dry run reports the same number and leaves the cache as it  *)
(* was.                                                                     *)
C22_CleanupRemovesExactlyExpired ==
    last.op = "cleanup"
        => /\ last.count = Cardinality(ExpiredAt(last.before, last.at))
           /\ last.dry_run => last.after = last.before
           /\ ~last.dry_run
                => /\ DOMAIN last.after
                        = DOMAIN last.before \ ExpiredAt(last.before, last.at)
                   /\ \A k \in DOMAIN last.after : last.after[k] = last.before[k]
           /\ (last.again /\ ~last.dry_run)
                => last.count = 0 /\ last.after = last.before

C22_Witness ==
    /\ last.op = "cleanup"
    /\ ~last.dry_run
    /\ Cardinality(DOMAIN last.before) = 2
    /\ last.count = 1
    /\ cache = last.after

(* C23, as stated: the output of sign_lti_request holds every field of the  *)
(* input body with the value it had, empty values included, and also        *)
(* oauth_consumer_key equal to the key given, oauth_signature_method        *)
(* HMAC-SHA1, oauth_version 1.0, oauth_nonce, oauth_timestamp and           *)
(* oauth_signature; two calls with the same input differ in nonce and in    *)
(* signature.                                                               *)
C23_SignedKeepsEveryField ==
    last.op = "sign"
        => /\ \A i \in 1..Len(last.body) :
                /\ last.body[i][1] \in DOMAIN last.signed
                /\ last.signed[last.body[i][1]] = last.body[i][2]
           /\ {<<"oauth_consumer_key">>, <<"oauth_signature_method">>,
                <<"oauth_version">>, <<"oauth_nonce">>, <<"oauth_timestamp">>,
                <<"oauth_signature">>} \subseteq DOMAIN last.signed
           /\ last.signed[<<"oauth_consumer_key">>] = last.consumer_key
           /\ last.signed[<<"oauth_signature_method">>] = <<"HMAC-SHA1">>
           /\ last.signed[<<"oauth_version">>] = <<"1", ".", "0">>
           /\ last.prev # None
                => /\ last.prev[1][<<"oauth_nonce">>] # last.signed[<<"oauth_nonce">>]
                   /\ last.prev[1][<<"oauth_signature">>]
                        # last.signed[<<"oauth_signature">>]

\* every replacement field of the value is one of the five known names
OnlyKnownFields(value) ==
    \A i \in 1..Len(value) : value[i].field => value[i].text \in FormatVars

(* C24, as stated: in an override value the placeholders {usr}, {grp},      *)
(* {sub}, {cid} and {source_id} are replaced by the launch's values; a      *)
(* value with any other placeholder, an unknown name or the empty {}, is    *)
(* kept as written; building the body never fails because of an override   *)
(* value.                                                                   *)
C24_OverrideNeverFails ==
    last.op = "override"
        => /\ last.raised = ""
           /\ OnlyKnownFields(last.value)
                => last.result = Format(last.value, last.format_vars)
           /\ ~OnlyKnownFields(last.value) => last.result = Raw(last.value)

(* C25, as stated: a launch uses tool, sub, usr and grp exactly as they     *)
(* were submitted: it is either rejected with 400 or goes on with the       *)
(* submitted values unchanged, so that the source_id and the cached context *)
(* carry the submitted values; no value is altered, trimmed for one, and    *)
(* then accepted.                                                           *)
C25_SubmittedValuesUsedUnchanged ==
    (IsLaunch /\ last.status # 400)
        => /\ last.tool = Get(last.req, "tool")
           /\ last.source_id = generate_source_id(Get(last.req, "usr"),
                                    Get(last.req, "grp"), Get(last.req, "sub"))
           /\ (last.cacheWrite /\ ~last.writeRaised)
                => /\ last.source_id \in DOMAIN cache
                   /\ cache[last.source_id].tool = Get(last.req, "tool")
                   /\ cache[last.source_id].usr = Get(last.req, "usr")
                   /\ cache[last.source_id].grp = Get(last.req, "grp")
                   /\ cache[last.source_id].sub = Get(last.req, "sub")

\* the setting of the environment env is a non-empty string, its default
\* counted
NonEmpty(env, name) ==
    env[name] = "set"
    \/ (env[name] = "unset" /\ name \in {"CODECHECK_LAUNCH", "PAWS_LTI_URL"})

(* C26: is_tool_configured is true exactly when the tool is in the registry *)
(* and, for a PAWS-proxy tool, its launch URL is non-empty, or, for a       *)
(* direct tool, its key, secret and launch URL are all non-empty;           *)
(* get_tool_config gives None for a tool outside the registry;              *)
(* list_configured_tools gives exactly the tools for which                  *)
(* is_tool_configured is true.                                              *)
C26_ConfiguredIffSettingsPresent ==
    last.op = "config"
        => /\ last.configured[codecheck]
                = (/\ NonEmpty(last.env, "CODECHECK_KEY")
                   /\ NonEmpty(last.env, "CODECHECK_SECRET")
                   /\ NonEmpty(last.env, "CODECHECK_LAUNCH"))
           /\ last.configured[paws_ctat] = NonEmpty(last.env, "PAWS_LTI_URL")
           /\ ~last.configured[unknown_tool]
           /\ last.config[unknown_tool] = None
           /\ last.config[codecheck] # None /\ last.config[paws_ctat] # None
           /\ last.listed = {t \in ConfigTools : last.configured[t]}

C26_Witness ==
    /\ last.op = "config"
    /\ last.listed = {paws_ctat}
    /\ last.env["CODECHECK_KEY"] = "set"
    /\ last.env["CODECHECK_SECRET"] = "empty"

(* C27, as stated: the tool configuration is fixed at process start: a      *)
(* launch sees the configuration of the environment the process started     *)
(* with, whatever was changed since, and two reads of the configuration     *)
(* within one request agree.                                                *)
C27_ConfigurationFixedAtStart ==
    last.op = "config_launch"
        => /\ last.read1[1] = last.start
           /\ last.read2 # None => last.read2 = last.read1

\* the settings a tool of the registry lacks in the configuration read
MissingSettings(configs, tool) ==
    IF configs[tool].is_paws_proxy
    THEN {n \in {"LAUNCH"} : ~configs[tool].launch_url}
    ELSE {n \in {"KEY", "SECRET", "LAUNCH"} :
             \/ n = "KEY" /\ ~configs[tool].consumer_key
             \/ n = "SECRET" /\ ~configs[tool].consumer_secret
             \/ n = "LAUNCH" /\ ~configs[tool].launch_url}

(* C28, as stated: a launch that fails because the tool lacks settings      *)
(* names in its error exactly the settings that are missing, not a fixed    *)
(* list and not a generic message.                                          *)
C28_ErrorNamesMissingSettings ==
    (/\ last.op = "config_launch"
     /\ last.status = 400
     /\ last.tool \in DOMAIN last.start)
        => /\ ~last.generic
           /\ last.named
                = MissingSettings(IF last.read2 # None THEN last.read2[1]
                                  ELSE last.read1[1], last.tool)

\* the parameters a redirect carries in its query string
QueryOf(query) == DictOf(parse_qsl(query, TRUE))

(* C29, as stated: the launch of a mediated tool signs nothing and          *)
(* redirects to the tool's base URL with the query parameters tool (the     *)
(* upstream tool name), sub, usr and grp; cid, sid and svc are present      *)
(* exactly when they were supplied, and carry the supplied values.          *)
C29_MediatedLaunchRedirects ==
    last.op = "paws_launch"
        => LET q == QueryOf(last.query)
           IN  /\ last.status = 302
               /\ last.location = [prefix |-> <<last.base_url.scheme, "://">>,
                                   rest |-> last.base_url.rest]
               /\ DOMAIN q \subseteq {<<"tool">>, <<"sub">>, <<"usr">>, <<"grp">>,
                                      <<"cid">>, <<"sid">>, <<"svc">>}
               /\ q[<<"tool">>] = PawsTool
               /\ q[<<"sub">>] = last.req.sub
               /\ q[<<"usr">>] = last.req.usr
               /\ q[<<"grp">>] = last.req.grp
               /\ \A p \in {"cid", "sid", "svc"} :
                    /\ (<<p>> \in DOMAIN q) = (last.req[p] # <<>>)
                    /\ <<p>> \in DOMAIN q => q[<<p>>] = last.req[p]

\* the raw scores of the model that are numbers greater than 0
PositiveScores == {<<"0", ".", "3">>, <<"0", ".", "5">>, <<"1", ".", "5">>,
                   <<"0", ".", "8">>}

(* C30: the UM request of an outcome applies the tool's hooks and leaves    *)
(* out empty fields: for ctat a raw score greater than 0 is sent as res=1   *)
(* and a zero, negative or non-numeric one as res=0, res being present      *)
(* either way; for dbqa sub and act are sent with the suffix "-lti"; for    *)
(* any other tool score, sub and act are sent unchanged; a parameter whose  *)
(* value is empty is not in the URL.                                        *)
C30_UMRequestAppliesHooks ==
    last.op = "um_url"
        => LET q == QueryOf(last.query)
               in == last.in
           IN  /\ {<<"app">>, <<"act">>, <<"sub">>, <<"res">>, <<"usr">>, <<"grp">>}
                    \subseteq DOMAIN q
               /\ \A k \in DOMAIN q : q[k] # <<>>
               /\ q[<<"usr">>] = in.usr /\ q[<<"grp">>] = in.grp
               /\ in.tool = ctat
                    => /\ q[<<"res">>] = (IF in.score \in PositiveScores
                                          THEN <<"1">> ELSE <<"0">>)
                       /\ q[<<"sub">>] = in.sub
                       /\ q[<<"act">>] = ctat
               /\ in.tool = dbqa
                    => /\ q[<<"res">>] = in.score
                       /\ q[<<"sub">>] = in.sub \o <<"-", "l", "t", "i">>
                       /\ q[<<"act">>] = dbqa \o <<"-", "l", "t", "i">>
               /\ in.tool = codecheck
                    => /\ q[<<"res">>] = in.score
                       /\ q[<<"sub">>] = in.sub
                       /\ q[<<"act">>] = codecheck
               /\ \A p \in {"sid", "svc", "cid"} :
                    /\ (<<p>> \in DOMAIN q) = (in[p] # <<>>)
                    /\ <<p>> \in DOMAIN q => q[<<p>>] = in[p]

C30_Witness ==
    /\ last.op = "um_url"
    /\ last.in.tool = ctat
    /\ last.in.score = <<"0", ".", "0">>
    /\ last.in.svc = <<>>
    /\ QueryOf(last.query)[<<"res">>] = <<"0">>
    /\ <<"svc">> \notin DOMAIN QueryOf(last.query)

\* usr, grp and sub of the launch as validation returned them, joined by "_"
JoinedKey(req) ==
    Strip(Get(req, "usr")) \o <<"_">> \o Strip(Get(req, "grp"))
        \o <<"_">> \o Strip(Get(req, "sub"))

Collided ==
    /\ Len(inflight) = 2
    /\ <<inflight[1].usr, inflight[1].grp, inflight[1].sub>>
            # <<inflight[2].usr, inflight[2].grp, inflight[2].sub>>
    /\ JoinedKey(inflight[1]) = JoinedKey(inflight[2])

(* C32: two launches that pass validation with different usr, grp, sub can  *)
(* derive one source_id; the context of the later launch then replaces that *)
(* of the earlier one, and an outcome for that source_id is applied to the  *)
(* user, group and module of the later launch.                              *)
C32_LaterLaunchOwnsCollidingContext ==
    Collided
        => LET key == JoinedKey(inflight[2])
           IN  /\ key \in DOMAIN cache
                    => /\ cache[key].usr = inflight[2].usr
                       /\ cache[key].grp = inflight[2].grp
                       /\ cache[key].sub = inflight[2].sub
                       /\ cache[key].user_id = IntOrNone(inflight[2].usr)
                       /\ cache[key].course_instance_id = IntOrNone(inflight[2].grp)
               /\ (/\ IsPost /\ last.lookup = "hit"
                   /\ parse_outcome_xml(last.body).source_id = key)
                    => /\ last.progress_called = Truthy(IntOrNone(inflight[2].usr))
                       /\ last.progress_updated
                            => /\ IntOrNone(inflight[2].usr) = Some(1)
                               /\ IntOrNone(inflight[2].grp) = Some(7)

C32_Witness ==
    /\ Collided
    /\ inflight[1].usr = <<"1", "_", "7">>
    /\ inflight[2].usr = <<"1">>
    /\ IsPost /\ last.lookup = "hit" /\ last.progress_updated
    /\ progress # None

(* C33: an outcome never lowers the stored score of the progress record it  *)
(* finds, and an outcome whose score is below the stored one leaves every   *)
(* field of the record as it was.                                           *)
C33_StoredScoreNeverDecreases ==
    IsPost /\ last.progressBefore # None /\ Before.score # None =>
        /\ progress # None /\ progress[1].score # None
        /\ Ge(progress[1].score[1], Before.score[1])
        /\ HitHandled /\ last.progress_called
              /\ Lt(Times100(last.score), Before.score[1])
           => progress = last.progressBefore

C33_Witness ==
    /\ HitHandled /\ last.progress_called /\ Len(log) = 2
    /\ last.progressBefore # None /\ Before.score = Some(Times100(F(8)))
    /\ last.score = F(5)
    /\ progress = last.progressBefore

(* C34: an outcome lookup deletes a launch context only if the context is   *)
(* expired when it is deleted; a context refreshed by a launch stays until  *)
(* the expiry that launch set, and an outcome handled before that expiry is *)
(* a cache hit.                                                             *)
C34_LookupDeletesOnlyExpired ==
    /\ inflight.deleted # None /\ IsPost /\ inflight.pc = "idle"
          => is_expired(inflight.deleted[1], last.at)
    /\ inflight.refreshed # None /\ now <= inflight.refreshed[1]
          => /\ LaunchedId \in DOMAIN cache
             /\ cache[LaunchedId].expires_at = inflight.refreshed[1]

(* C35: whenever the log entry of an outcome attempt is stored, its success *)
(* field is true exactly when the response carries imsx_codeMajor success,  *)
(* also when the entry is stored by the outer error handler.                *)
C35_LoggedSuccessMatchesResponse ==
    Logged => (LastRow.success <=> last.codeMajor = "success")

(* C36: an outcome leaves a launch context that is not expired as it is,    *)
(* in the store and field by field, and only an outcome that comes no later *)
(* than the expiry of the context is correlated with it.                    *)
C36_OutcomeLeavesValidContext ==
    /\ IsPost /\ last.ctxExpires # None /\ last.at <= last.ctxExpires[1]
          => ~last.cacheChanged
    /\ IsPost /\ last.lookup = "hit"
          => last.ctxExpires # None /\ last.at <= last.ctxExpires[1]

(* C37: for a tool without outcome_score_processor the UM request carries   *)
(* res equal to the textString exactly as it was received, while the score  *)
(* handed to the local merge is the clamped one: 1.0 for a raw 1.5, and 0.0 *)
(* for a textString that is not a number.                                   *)
C37_RawScoreIsForwarded ==
    last.op = "forward" =>
        /\ <<"res">> \in DOMAIN QueryOf(last.query)
        /\ QueryOf(last.query)[<<"res">>] = last.in.text
        /\ last.in.text = <<"1", ".", "5">> => last.score_float = F(One)
        /\ ~ParseFloat(last.in.text).ok => last.score_float = F(0)

(* C38: an outcome never turns is_complete of a progress record from true  *)
(* to false, whether the record became complete by an outcome of score 1.0  *)
(* or was created complete for an instructor.                               *)
C38_CompleteStaysComplete ==
    last.op = "progress" /\ last.before.is_complete
        => progress # None /\ progress[1].is_complete

\* the handler gave up on the UM service
TimedOut == IsPost /\ last.um_requested /\ last.um_reply.kind = "timeout"

(* C39: every outcome handler in flight comes to its response and its log   *)
(* write, also when the UM service never answers; a forward given up at the *)
(* timeout is logged as "UM service timeout" and the response is success    *)
(* exactly when the local progress update was applied.                      *)
C39_HandlerEndsWithoutUM ==
    /\ (inflight # <<>>) ~> (inflight = <<>> /\ IsPost /\ Logged)
    /\ [](TimedOut => /\ Logged
                       /\ LastRow.error_message = "UM service timeout"
                       /\ LastRow.um_response_status = None
                       /\ last.codeMajor = "success" <=> last.progress_updated)

C39_Witness ==
    /\ TimedOut /\ Logged /\ inflight = <<>>
    /\ last.progress_updated /\ last.codeMajor = "success"
    /\ LastRow.error_message = "UM service timeout"

(* C40: the source_id of every launch that passes validation has at most   *)
(* the 512 characters of the key column of LaunchCache, and the launch      *)
(* stores its context unless the write itself raises.                       *)
C40_SourceIdFitsKeyColumn ==
    LaunchActionReturned =>
        /\ Len(last.source_id) <= SourceIdMaxLength
        /\ ~last.writeRaised => last.source_id \in DOMAIN cache

\* the tool is in the registry with every setting it needs
Configured(tool) == tool \in DOMAIN ToolConfigs /\ ~NotConfigured(tool)

(* C11: every launch request ends in a 400 plain text, in a 200 with the    *)
(* signed form (direct tool) or in a redirect (mediated tool), and a launch *)
(* with valid tool, sub, usr, grp for a configured tool of the registry     *)
(* ends in the form or the redirect; none ends in an unhandled error.       *)
C11_LaunchEndsInOneOfThree ==
    IsLaunch =>
        /\ \/ last.status = 400 /\ last.kind = ""
           \/ last.status = 200 /\ last.kind = "form"
           \/ last.status = 302 /\ last.kind = "redirect"
        /\ ~StrippedBad(last.req) /\ Configured(Strip(Get(last.req, "tool")))
              => last.status \in {200, 302}

(* C10: a launch whose parameters pass validation, for a tool that is       *)
(* unknown or not configured, returns 400 with a text that contains "not    *)
(* configured" and writes no LaunchCache row.                               *)
C10_UnconfiguredToolIsRejected ==
    IsLaunch /\ ~StrippedBad(last.req) /\ NotConfigured(Strip(Get(last.req, "tool")))
    => /\ last.status = 400 /\ last.text = "not configured"
       /\ ~last.cacheWrite /\ ~last.cacheChanged

C10_Witness ==
    /\ IsLaunch /\ Strip(Get(last.req, "tool")) = ctat
    /\ last.status = 400 /\ last.text = "not configured" /\ cache # NoRows

====
